---- MODULE Spec2Model ----
(***************************************************************************)
(* Model of the course / enrollment / progress bookkeeping of the          *)
(* E-Learning platform backend (Authenication/models.py, views.py,         *)
(* signals.py, serializers.py, admin.py).                                  *)
(*                                                                         *)
(* The relational store is the state; every request handler, model method  *)
(* and admin operation is one atomic action (requests executed one after   *)
(* another), including the signal receivers the ORM runs inside it.  The   *)
(* handlers whose statements matter one by one (requests served at the     *)
(* same time, requests that end half-way) are modelled a second time, one  *)
(* step per ORM statement, with the worker's local variables in requests.  *)
(***************************************************************************)
EXTENDS Integers, Sequences, FiniteSets, TLC

VARIABLES users, course, lessons, enrollments, logs, ratings, now, last, requests

vars == <<users, course, lessons, enrollments, logs, ratings, now, last, requests>>

----------------------------------------------------------------------------
(* Bounds of the model *)

NumUsers == 2
NumCourses == 2
MaxEnrollments == 2
MaxLessons == 2
MaxRatings == 2
MaxPageInput == 3
MaxLog == 4
MaxClock == 2
MaxCounter == 2

Users == 1..NumUsers
Courses == 1..NumCourses
EnrollIds == 1..MaxEnrollments
LessonIds == 1..MaxLessons
RatingIds == 1..MaxRatings

(* total_pages of the courses that exist initially (page count of the upload) *)
InitialPages == {0, 2}
(* request inputs *)
PageInputs == 0..MaxPageInput
TimeInputs == {0, 2}
ActionInputs == {"page_view", "quiz_complete"}
NoteInputs == {"", "ab"}
OrderInputs == {0, 1}
RatingInputs == {0, 2, 3, 5}
BookmarkListInputs == {<<>>, <<1>>}

----------------------------------------------------------------------------
(* Values *)

\* SQL NULL of a nullable column (completed_at, current_lesson)
Null == 0
\* a primary key with no row in its table
NoRow == [exists |-> FALSE]

Max(a, b) == IF a >= b THEN a ELSE b

\* default of CourseEnrollment.current_page
DefaultCurrentPage == 1

HTTP_200_OK == 200
HTTP_201_CREATED == 201
HTTP_400_BAD_REQUEST == 400
HTTP_404_NOT_FOUND == 404

\* JSON metadata of a log row: {} / {'action': 'added'} / {'length': n} / {'reset_at': t}
EmptyMeta == [key |-> "", num |-> 0, text |-> ""]
AddedMeta == [key |-> "action", num |-> 0, text |-> "added"]
LengthMeta(n) == [key |-> "length", num |-> n, text |-> ""]
ResetMeta(t) == [key |-> "reset_at", num |-> t, text |-> ""]

\* a UserProgressLog row
LogRow(p, a, t, m) == [page_number |-> p, action |-> a, time_spent |-> t, metadata |-> m]

\* the response of the operation that ran last
Resp(op, status, c, id, arg) ==
  [op |-> op, status |-> status, course |-> c, id |-> id, arg |-> arg]

----------------------------------------------------------------------------
(* Queries on the store *)

Exists(row) == row # NoRow

\* CourseEnrollment.objects.filter(course=c)
EnrollmentsOf(c) == {e \in EnrollIds : Exists(enrollments[e]) /\ enrollments[e].course = c}

\* CourseEnrollment.objects.filter(user=u, course=c)
EnrollmentOf(u, c) ==
  {e \in EnrollIds : Exists(enrollments[e]) /\ enrollments[e].user = u /\ enrollments[e].course = c}

\* Lesson.objects.filter(course=c)
LessonsOf(ls, c) == {l \in LessonIds : Exists(ls[l]) /\ ls[l].course = c}

\* CourseRating.objects.filter(course=c)
RatingsOf(rs, c) == {r \in RatingIds : Exists(rs[r]) /\ rs[r].course = c}

\* a fresh primary key (uuid4): any key that has no row
FreeIds(table, ids) == {i \in ids : ~Exists(table[i])}

----------------------------------------------------------------------------
(* Pure functions of the model layer *)

RECURSIVE Gcd(_, _)
Gcd(a, b) == IF b = 0 THEN a ELSE Gcd(b, a % b)

\* a rational number as a reduced fraction <<numerator, denominator>>
Frac(n, d) == LET g == Gcd(n, d) IN IF n = 0 THEN <<0, 1>> ELSE <<n \div g, d \div g>>

RECURSIVE SumRatings(_, _)
SumRatings(rs, S) ==
  IF S = {} THEN 0
  ELSE LET r == CHOOSE x \in S : TRUE IN rs[r].rating + SumRatings(rs, S \ {r})

\* aggregate(avg=Avg('rating'))['avg'] or 0.0
AvgRating(rs, c) ==
  LET S == RatingsOf(rs, c)
  IN IF S = {} THEN <<0, 1>> ELSE Frac(SumRatings(rs, S), Cardinality(S))

Digits == <<"0", "1", "2", "3", "4", "5", "6", "7", "8", "9">>

\* str(page_number)
RECURSIVE Str(_)
Str(n) == IF n < 10 THEN Digits[n + 1] ELSE Str(n \div 10) \o Digits[(n % 10) + 1]

\* str(counter), as a sequence of characters
RECURSIVE DigitSeq(_)
DigitSeq(n) ==
  IF n < 10 THEN <<Digits[n + 1]>> ELSE DigitSeq(n \div 10) \o <<Digits[(n % 10) + 1]>>

\* str.lower() on the letters that occur in the titles
UpperCase == <<"A", "B">>
LowerCase == <<"a", "b">>
Lower(ch) ==
  IF \E i \in 1..Len(UpperCase) : UpperCase[i] = ch
  THEN LowerCase[CHOOSE i \in 1..Len(UpperCase) : UpperCase[i] = ch]
  ELSE ch

LowerSeq(text) == [i \in 1..Len(text) |-> Lower(text[i])]

\* \w of the regular expressions in slugify, on lowered text
WordChars == {"a", "b", "_"} \cup {Digits[i] : i \in 1..Len(Digits)}
HyphenOrSpace == {"-", " "}

\* re.sub(r'[-\s]+', '-', value)
RECURSIVE CollapseHyphens(_)
CollapseHyphens(text) ==
  IF text = <<>> THEN <<>>
  ELSE IF Head(text) \in HyphenOrSpace
       THEN IF Len(text) > 1 /\ text[2] \in HyphenOrSpace
            THEN CollapseHyphens(Tail(text))
            ELSE <<"-">> \o CollapseHyphens(Tail(text))
       ELSE <<Head(text)>> \o CollapseHyphens(Tail(text))

\* str.strip('-_')
RECURSIVE StripLeft(_)
StripLeft(text) ==
  IF text # <<>> /\ Head(text) \in {"-", "_"} THEN StripLeft(Tail(text)) ELSE text

RECURSIVE StripRight(_)
StripRight(text) ==
  IF text # <<>> /\ text[Len(text)] \in {"-", "_"}
  THEN StripRight(SubSeq(text, 1, Len(text) - 1))
  ELSE text

KeptBySlugify(ch) == ch \in WordChars \cup HyphenOrSpace

\* django.utils.text.slugify(title)
Slugify(title) ==
  StripRight(StripLeft(CollapseHyphens(SelectSeq(LowerSeq(title), KeptBySlugify))))

\* a membership test that looks at the first entry only
InListFirstOnly(x, list) == Len(list) > 0 /\ list[1] = x

\* x in list
InList(x, list) == \E i \in 1..Len(list) : list[i] = x

\* the lookup without the filter course=self.course
ResolveLessonAnyCourse(ls, c, p) ==
  LET all == {l \in LessonIds : Exists(ls[l])}
      exact == {l \in all : ls[l].page_number = p}
      below == {l \in all : ls[l].page_number <= p}
  IN IF exact # {} THEN CHOOSE l \in exact : TRUE
     ELSE IF below # {}
          THEN CHOOSE l \in below : \A k \in below : ls[k].page_number <= ls[l].page_number
          ELSE Null

\* Lesson.objects.get(course, page_number=p), else the lesson with the
\* greatest page_number <= p, else None
ResolveLesson(ls, c, p) ==
  LET exact == {l \in LessonsOf(ls, c) : ls[l].page_number = p}
      below == {l \in LessonsOf(ls, c) : ls[l].page_number <= p}
  IN IF exact # {} THEN CHOOSE l \in exact : TRUE
     ELSE IF below # {}
          THEN CHOOSE l \in below : \A k \in below : ls[k].page_number <= ls[l].page_number
          ELSE Null

\* Sum('time_spent') over log rows
RECURSIVE SumTimeSpent(_)
SumTimeSpent(rows) ==
  IF rows = <<>> THEN 0 ELSE Head(rows).time_spent + SumTimeSpent(Tail(rows))

\* CourseEnrollment.progress_percentage, as the fraction of 100
ProgressPercentage(row, tp) ==
  IF tp > 0 THEN (IF row.pages_completed >= tp THEN <<100, 1>>
                  ELSE Frac(row.pages_completed * 100, tp))
  ELSE <<0, 1>>

\* CourseEnrollment.is_completed
IsCompleted(row) == row.completed_at # Null

\* a CourseEnrollment row with the column defaults
NewEnrollment(u, c) ==
  [exists |-> TRUE, user |-> u, course |-> c,
   current_page |-> DefaultCurrentPage, current_lesson |-> Null,
   pages_completed |-> 0, total_pages_viewed |-> 0,
   bookmarked_pages |-> <<>>, notes |-> {}, completed_at |-> Null]

\* update_progress without the "if page_number > self.pages_completed" test
UpdateProgressRowRegress(row, p, ls, tp, t) ==
  [row EXCEPT
     !.current_page = p,
     !.pages_completed = p,
     !.current_lesson = ResolveLesson(ls, row.course, p),
     !.completed_at = IF p >= tp /\ row.completed_at = Null THEN t ELSE row.completed_at,
     !.total_pages_viewed = row.total_pages_viewed + 1]

\* update_progress without the "and not self.completed_at" test
UpdateProgressRowRestamp(row, p, ls, tp, t) ==
  [row EXCEPT
     !.current_page = p,
     !.pages_completed = IF p > row.pages_completed THEN p ELSE row.pages_completed,
     !.current_lesson = ResolveLesson(ls, row.course, p),
     !.completed_at = IF p >= tp THEN t ELSE row.completed_at,
     !.total_pages_viewed = row.total_pages_viewed + 1]

\* update_progress that marks the enrollment completed one page early
UpdateProgressRowEarlyComplete(row, p, ls, tp, t) ==
  [row EXCEPT
     !.current_page = p,
     !.pages_completed = IF p > row.pages_completed THEN p ELSE row.pages_completed,
     !.current_lesson = ResolveLesson(ls, row.course, p),
     !.completed_at = IF p + 1 >= tp /\ row.completed_at = Null THEN t ELSE row.completed_at,
     !.total_pages_viewed = row.total_pages_viewed + 1]

\* the in-memory part of CourseEnrollment.update_progress: the fields of the
\* row after the call (t is timezone.now())
UpdateProgressRow(row, p, ls, tp, t) ==
  [row EXCEPT
     !.current_page = p,
     !.pages_completed = IF p > row.pages_completed THEN p ELSE row.pages_completed,
     !.current_lesson = ResolveLesson(ls, row.course, p),
     !.completed_at = IF p >= tp /\ row.completed_at = Null THEN t ELSE row.completed_at,
     !.total_pages_viewed = row.total_pages_viewed + 1]

----------------------------------------------------------------------------
(* Signal receivers (signals.py) *)

\* post_save of CourseEnrollment
update_course_enrollment_count(crs, enrs, c, created) ==
  IF created /\ Exists(crs[c])
  THEN [crs EXCEPT ![c].total_enrollments =
          Cardinality({e \in EnrollIds : Exists(enrs[e]) /\ enrs[e].course = c})]
  ELSE crs

\* post_save of Lesson
update_course_lesson_count(crs, ls, c) ==
  IF Exists(crs[c])
  THEN [crs EXCEPT ![c].total_lessons = Cardinality(LessonsOf(ls, c))]
  ELSE crs

\* post_save and post_delete of CourseRating
update_course_average_rating(crs, rs, c) ==
  IF Exists(crs[c])
  THEN [crs EXCEPT ![c].average_rating = AvgRating(rs, c)]
  ELSE crs

----------------------------------------------------------------------------
(* Request layer helpers *)

\* User.is_staff: one staff account, next to the learners
StaffUsers == {NumUsers + 1}
AllUsers == Users \cup StaffUsers

\* request.user of a request without credentials (AnonymousUser)
Anonymous == 0
Requesters == Users \cup {Anonymous}

\* a query parameter that is not given
NoParam == 0

\* the visibility filter without "| Q(creator=self.request.user)"
VisibleCoursePublicOnly(u, c) ==
  /\ Exists(course[c])
  /\ (u \in StaffUsers \/ course[c].is_public)

\* CourseViewSet.get_queryset, the filter by public status: the courses a
\* requester (Anonymous, a learner, a staff account) can see and address
VisibleCourse(u, c) ==
  /\ Exists(course[c])
  /\ (u \in StaffUsers \/ course[c].is_public \/ course[c].creator = u)

\* sub occurs in text
Contains(text, sub) ==
  \E i \in 0..(Len(text) - Len(sub)) : SubSeq(text, i + 1, i + Len(sub)) = sub

\* title__icontains / description__icontains
IContains(text, sub) == Contains(LowerSeq(text), LowerSeq(sub))

\* CourseViewSet.get_queryset: the creator filter, the filter by public
\* status, then the search filter
CourseQueryset(req, creator, search) ==
  LET all == {c \in Courses : Exists(course[c])}
      byCreator == IF creator # NoParam
                   THEN {c \in all : course[c].creator = creator} ELSE all
      visible == {c \in byCreator : VisibleCourse(req, c)}
  IN IF search # <<>>
     THEN {c \in visible : IContains(course[c].title, search) \/
                           IContains(course[c].description, search)}
     ELSE visible

\* a queryset that is not filtered by the requester
OwnEnrollmentUnscoped(u, e) == Exists(enrollments[e])

\* CourseEnrollmentViewSet.get_queryset + get_object: the addressed
\* enrollment exists and belongs to the requester
OwnEnrollment(u, e) == Exists(enrollments[e]) /\ enrollments[e].user = u

\* hasattr(view, 'get_course'): CourseEnrollmentViewSet defines no get_course
ViewHasGetCourse == FALSE

\* ProgressUpdateSerializer.is_valid: field validation, then validate()
ProgressUpdateValid(p, t, tp) ==
  /\ p >= 1
  /\ t >= 0
  /\ ~(ViewHasGetCourse /\ p > tp)

\* the range test against total_pages, off by one
PageExceedsOffByOne(p, tp) == p > tp + 1

\* bookmark: page_number > enrollment.course.total_pages
PageExceeds(p, tp) == p > tp

\* reset_progress that leaves the bookmarks and the completion in place
ResetRowPartial(row) ==
  [row EXCEPT !.current_page = 1, !.current_lesson = Null,
              !.pages_completed = 0, !.total_pages_viewed = 0,
              !.notes = {}]

\* reset_progress: "Reset all progress fields" of the loaded enrollment
ResetRow(row) ==
  [row EXCEPT !.current_page = 1, !.current_lesson = Null,
              !.pages_completed = 0, !.total_pages_viewed = 0,
              !.bookmarked_pages = <<>>, !.notes = {},
              !.completed_at = Null]

\* unenroll that leaves the counter to the receivers
DecrementFloorSkipped(n) == Max(0, n)

\* unenroll: max(0, course.total_enrollments - 1)
DecrementFloor(n) == Max(0, n - 1)

\* an uploaded document: its extension, the page count PyPDF2 reads from the
\* PDF (of the upload, or of the PDF the conversion renders; 0 when the reader
\* fails), the paragraph count python-docx reads, and whether the conversion
\* to PDF succeeds
PdfFile(n) == [ext |-> "pdf", pdf_pages |-> n, paragraphs |-> 0, converts |-> FALSE]
DocxFile(par, conv, n) == [ext |-> "docx", pdf_pages |-> n, paragraphs |-> par, converts |-> conv]

\* validate_pdf_or_docx
ValidExtensions == {"pdf", "docx", "doc"}

\* Course.get_pdf_page_count
PdfPageCount(file) == file.pdf_pages

\* Course.get_docx_page_count: max(1, total_paragraphs // 10)
DocxPageCount(file) == Max(1, file.paragraphs \div 10)

\* Course.objects.filter(slug=s).exists()
SlugExists(crs, s) == \E c \in Courses : Exists(crs[c]) /\ crs[c].slug = s

\* f'{original_slug}-{counter}', the slug itself before the first collision
Suffixed(s, k) == IF k = 0 THEN s ELSE s \o <<"-">> \o DigitSeq(k)

\* the slug of the title, without the loop that looks for a free one
NextFreeSlugUnchecked(crs, s, k) == Suffixed(s, k)

\* the while loop of Course.save: the first of s, s-1, s-2, ... not stored
RECURSIVE NextFreeSlug(_, _, _)
NextFreeSlug(crs, s, k) ==
  IF SlugExists(crs, Suffixed(s, k)) THEN NextFreeSlug(crs, s, k + 1) ELSE Suffixed(s, k)

\* "if not self.slug": the slug of the instance after the first block of save
SlugOnSave(crs, inst) ==
  IF inst.slug = <<>> THEN NextFreeSlug(crs, Slugify(inst.title), 0) ELSE inst.slug

\* self.pk is None: the primary key is a UUIDField with default=uuid.uuid4,
\* which the constructor fills in, so pk is never None inside save
PkIsNone == FALSE

\* os.path.splitext(name)[1].lower() in ['.docx', '.doc']
IsDocx(file) == file.ext \in {"docx", "doc"}

\* the file-metadata block of Course.save, before the first super().save()
WithFileMetadata(inst) ==
  IF inst.file.ext = "pdf"
  THEN [inst EXCEPT !.file_type = "pdf", !.total_pages = PdfPageCount(inst.file)]
  ELSE IF IsDocx(inst.file)
       THEN [inst EXCEPT !.file_type = "pdf"]
       ELSE inst

\* the conversion block of Course.save (new uploads only), after the first
\* super().save(): on success the file is replaced by the rendered PDF; on
\* failure file_type and total_pages are set and written with
\* self.save(update_fields=...), which runs the metadata block again
AfterConversion(inst) ==
  IF inst.file.converts
  THEN [inst EXCEPT !.file = PdfFile(inst.file.pdf_pages),
                    !.total_pages = PdfPageCount(inst.file)]
  ELSE LET fallback == [inst EXCEPT !.file_type = "docx",
                                    !.total_pages = DocxPageCount(inst.file)]
       IN WithFileMetadata(fallback)

\* Course.save(): the row that is stored for the instance inst
CourseSaved(crs, inst) ==
  LET slugged == [inst EXCEPT !.slug = SlugOnSave(crs, inst)]
      is_new == PkIsNone
      first == WithFileMetadata(slugged)
  IN IF is_new /\ IsDocx(first.file) THEN AfterConversion(first) ELSE first

\* Model.save() of a loaded Course instance: every column is written back
SaveCourse(crs, c, inst) == [crs EXCEPT ![c] = CourseSaved(crs, inst)]

----------------------------------------------------------------------------
(* Requests served at the same time *)

\* the worker threads of the server: two requests can be in progress at once
Workers == {1, 2}

\* what a worker holds between two statements of a handler: the handler and
\* the statement it is at (pc), request.user, the enrollment or course the
\* request addresses (id), page_number, time_spent and action of the body,
\* the model instance the handler loaded (inst: its fields in memory, not the
\* row in the store), a value it got from the store (val: the id of the row
\* it created, the count it read), and the rows as they were when the
\* handler started
NoStart == [row |-> NoRow, log |-> <<>>, crs |-> NoRow]
Request(op, pc, u, id, p, t, a, inst, start) ==
  [op |-> op, pc |-> pc, user |-> u, id |-> id, page |-> p, time |-> t, action |-> a,
   inst |-> inst, val |-> 0, start |-> start]

\* a worker that serves no request
Idle == Request("", "idle", 0, 0, 0, 0, "", NoRow, NoStart)

\* the rows a request on enrollment e can write, as they are in the store
StartOf(e) ==
  [row |-> enrollments[e], log |-> logs[e], crs |-> course[enrollments[e].course]]

AllIdle == \A w \in Workers : requests[w] = Idle

----------------------------------------------------------------------------
(* Initial state: the users and courses exist, nothing else does *)

\* the title of the courses that exist initially
InitialTitle == <<"A", "b">>

\* course c was created by user c (modulo the number of users); the courses
\* with an odd number are public, published through the admin; all were
\* uploaded as PDF under the same title
InitialCourse(c, pages) ==
  [exists |-> TRUE, creator |-> ((c - 1) % NumUsers) + 1, is_public |-> (c % 2 = 1),
   published_at |-> IF c % 2 = 1 THEN 1 ELSE Null,
   title |-> InitialTitle, description |-> <<>>,
   slug |-> Suffixed(Slugify(InitialTitle), c - 1),
   file |-> PdfFile(pages), file_type |-> "pdf",
   total_pages |-> pages,
   total_lessons |-> 0, total_enrollments |-> 0, average_rating |-> <<0, 1>>]

\* the store with the users and the courses, every course with pg pages
InitStore(pg) ==
  /\ users = AllUsers
  /\ course = [c \in Courses |-> InitialCourse(c, pg)]
  /\ lessons = [l \in LessonIds |-> NoRow]
  /\ enrollments = [e \in EnrollIds |-> NoRow]
  /\ logs = [e \in EnrollIds |-> <<>>]
  /\ ratings = [r \in RatingIds |-> NoRow]
  /\ now = 1
  /\ last = Resp("init", 0, 0, 0, 0)
  /\ requests = [w \in Workers |-> Idle]

Init == \E pg \in InitialPages : InitStore(pg)

\* the page count plays no part in enrolling, rating and lesson bookkeeping
InitPaged == InitStore(2)

\* the store before the first course is created
InitNoCourses ==
  /\ users = AllUsers
  /\ course = [c \in Courses |-> NoRow]
  /\ lessons = [l \in LessonIds |-> NoRow]
  /\ enrollments = [e \in EnrollIds |-> NoRow]
  /\ logs = [e \in EnrollIds |-> <<>>]
  /\ ratings = [r \in RatingIds |-> NoRow]
  /\ now = 1
  /\ last = Resp("init", 0, 0, 0, 0)
  /\ requests = [w \in Workers |-> Idle]

----------------------------------------------------------------------------
(* Enrollment operations *)

\* the clock advances between requests
Tick ==
  /\ now < MaxClock
  /\ now' = now + 1
  /\ UNCHANGED <<requests, users, course, lessons, enrollments, logs, ratings, last>>

\* POST /courses/{slug}/enroll/  (CourseViewSet.enroll)
Enroll(u, c) ==
  /\ u \in users
  /\ IF ~VisibleCourse(u, c)
     THEN /\ last' = Resp("enroll", HTTP_404_NOT_FOUND, 0, 0, 0)
          /\ UNCHANGED <<requests, users, course, lessons, enrollments, logs, ratings, now>>
     ELSE IF EnrollmentOf(u, c) # {}
     THEN /\ last' = Resp("enroll", HTTP_400_BAD_REQUEST, 0, 0, 0)
          /\ UNCHANGED <<requests, users, course, lessons, enrollments, logs, ratings, now>>
     ELSE /\ FreeIds(enrollments, EnrollIds) # {}
          /\ LET e == CHOOSE i \in FreeIds(enrollments, EnrollIds) :
                        \A j \in FreeIds(enrollments, EnrollIds) : i <= j
                 enrs == [enrollments EXCEPT ![e] = NewEnrollment(u, c)]
             IN /\ enrollments' = enrs
                /\ logs' = [logs EXCEPT ![e] = <<>>]
                /\ course' = update_course_enrollment_count(course, enrs, c, TRUE)
                /\ last' = Resp("enroll", HTTP_201_CREATED, c, e, 0)
          /\ UNCHANGED <<requests, users, lessons, ratings, now>>

\* Course.enroll_user(user), called on a freshly loaded course
EnrollUser(u, c) ==
  /\ u \in users
  /\ Exists(course[c])
  /\ IF EnrollmentOf(u, c) # {}
     THEN /\ last' = Resp("enroll_user", HTTP_200_OK, c,
                          CHOOSE e \in EnrollmentOf(u, c) : TRUE, 0)
          /\ UNCHANGED <<requests, users, course, lessons, enrollments, logs, ratings, now>>
     ELSE /\ FreeIds(enrollments, EnrollIds) # {}
          /\ course[c].total_enrollments < MaxCounter
          /\ LET e == CHOOSE i \in FreeIds(enrollments, EnrollIds) :
                        \A j \in FreeIds(enrollments, EnrollIds) : i <= j
                 enrs == [enrollments EXCEPT ![e] = NewEnrollment(u, c)]
                 \* get_or_create saves the row: the receiver recounts in the store
                 crs == update_course_enrollment_count(course, enrs, c, TRUE)
                 \* self.total_enrollments += 1 on the instance loaded before
                 self == [course[c] EXCEPT !.total_enrollments = @ + 1]
             IN /\ enrollments' = enrs
                /\ logs' = [logs EXCEPT ![e] = <<>>]
                /\ course' = SaveCourse(crs, c, self)
                /\ last' = Resp("enroll_user", HTTP_201_CREATED, c, e, 0)
          /\ UNCHANGED <<requests, users, lessons, ratings, now>>

\* DELETE /enrollments/{id}/unenroll/  (CourseEnrollmentViewSet.unenroll)
Unenroll(u, e) ==
  /\ u \in users
  /\ IF ~OwnEnrollment(u, e)
     THEN /\ last' = Resp("unenroll", HTTP_404_NOT_FOUND, 0, 0, 0)
          /\ UNCHANGED <<requests, users, course, lessons, enrollments, logs, ratings, now>>
     ELSE LET c == enrollments[e].course
              inst == [course[c] EXCEPT
                         !.total_enrollments = DecrementFloor(course[c].total_enrollments)]
          IN /\ enrollments' = [enrollments EXCEPT ![e] = NoRow]
             /\ logs' = [logs EXCEPT ![e] = <<>>]
             /\ course' = SaveCourse(course, c, inst)
             /\ last' = Resp("unenroll", HTTP_200_OK, c, e, 0)
             /\ UNCHANGED <<requests, users, lessons, ratings, now>>

\* DELETE /enrollments/{id}/  (ModelViewSet.destroy of CourseEnrollmentViewSet)
DestroyEnrollment(u, e) ==
  /\ u \in users
  /\ IF ~OwnEnrollment(u, e)
     THEN /\ last' = Resp("destroy", HTTP_404_NOT_FOUND, 0, 0, 0)
          /\ UNCHANGED <<requests, users, course, lessons, enrollments, logs, ratings, now>>
     ELSE /\ enrollments' = [enrollments EXCEPT ![e] = NoRow]
          /\ logs' = [logs EXCEPT ![e] = <<>>]
          /\ last' = Resp("destroy", 204, enrollments[e].course, e, 0)
          /\ UNCHANGED <<requests, users, course, lessons, ratings, now>>

\* POST /enrollments/{id}/update-progress/
\* (CourseEnrollmentViewSet.update_progress -> CourseEnrollment.update_progress)
UpdateProgress(u, e, p, t, a) ==
  /\ u \in users
  /\ IF ~OwnEnrollment(u, e)
     THEN /\ last' = Resp("update_progress", HTTP_404_NOT_FOUND, 0, 0, 0)
          /\ UNCHANGED <<requests, users, course, lessons, enrollments, logs, ratings, now>>
     ELSE IF ~ProgressUpdateValid(p, t, course[enrollments[e].course].total_pages)
     THEN /\ last' = Resp("update_progress", HTTP_400_BAD_REQUEST, 0, 0, 0)
          /\ UNCHANGED <<requests, users, course, lessons, enrollments, logs, ratings, now>>
     ELSE /\ Len(logs[e]) + 2 <= MaxLog
          /\ enrollments' = [enrollments EXCEPT ![e] =
               UpdateProgressRow(enrollments[e], p, lessons,
                                 course[enrollments[e].course].total_pages, now)]
          \* the model method logs a page_view, then the view logs the request's action
          /\ logs' = [logs EXCEPT ![e] =
               Append(Append(logs[e], LogRow(p, "page_view", t, EmptyMeta)),
                      LogRow(p, a, t, EmptyMeta))]
          /\ last' = Resp("update_progress", HTTP_200_OK, enrollments[e].course, e, p)
          /\ UNCHANGED <<requests, users, course, lessons, ratings, now>>

\* POST /enrollments/{id}/bookmark/
Bookmark(u, e, p) ==
  /\ u \in users
  /\ IF ~OwnEnrollment(u, e)
     THEN /\ last' = Resp("bookmark", HTTP_404_NOT_FOUND, 0, 0, 0)
          /\ UNCHANGED <<requests, users, course, lessons, enrollments, logs, ratings, now>>
     \* "if not page_number", then the range test
     ELSE IF p = 0 \/ PageExceeds(p, course[enrollments[e].course].total_pages)
     THEN /\ last' = Resp("bookmark", HTTP_400_BAD_REQUEST, 0, 0, 0)
          /\ UNCHANGED <<requests, users, course, lessons, enrollments, logs, ratings, now>>
     ELSE IF InList(p, enrollments[e].bookmarked_pages)
     THEN /\ last' = Resp("bookmark", HTTP_200_OK, enrollments[e].course, e, p)
          /\ UNCHANGED <<requests, users, course, lessons, enrollments, logs, ratings, now>>
     ELSE /\ Len(logs[e]) + 1 <= MaxLog
          /\ enrollments' = [enrollments EXCEPT ![e].bookmarked_pages = Append(@, p)]
          /\ logs' = [logs EXCEPT ![e] = Append(@, LogRow(p, "bookmark", 0, AddedMeta))]
          /\ last' = Resp("bookmark", HTTP_200_OK, enrollments[e].course, e, p)
          /\ UNCHANGED <<requests, users, course, lessons, ratings, now>>

\* a note stored next to the notes the page already has
UpsertNoteKeepsOld(notes, p, note) == notes \cup {<<Str(p), note>>}

\* enrollment.notes[str(page_number)] = note_text: the JSON object as the set
\* of its <<key, value>> pairs
UpsertNote(notes, p, note) == {kv \in notes : kv[1] # Str(p)} \cup {<<Str(p), note>>}

\* POST /enrollments/{id}/add-note/
AddNote(u, e, p, note) ==
  /\ u \in users
  /\ IF ~OwnEnrollment(u, e)
     THEN /\ last' = Resp("add_note", HTTP_404_NOT_FOUND, 0, 0, 0)
          /\ UNCHANGED <<requests, users, course, lessons, enrollments, logs, ratings, now>>
     ELSE IF p = 0 \/ note = ""
     THEN /\ last' = Resp("add_note", HTTP_400_BAD_REQUEST, 0, 0, 0)
          /\ UNCHANGED <<requests, users, course, lessons, enrollments, logs, ratings, now>>
     ELSE /\ Len(logs[e]) + 1 <= MaxLog
          /\ enrollments' = [enrollments EXCEPT ![e].notes = UpsertNote(@, p, note)]
          /\ logs' = [logs EXCEPT ![e] =
               Append(@, LogRow(p, "note_added", 0, LengthMeta(Len(note))))]
          /\ last' = Resp("add_note", HTTP_200_OK, enrollments[e].course, e, p)
          /\ UNCHANGED <<requests, users, course, lessons, ratings, now>>

\* POST /enrollments/{id}/reset-progress/
ResetProgress(u, e) ==
  /\ u \in users
  /\ IF ~OwnEnrollment(u, e)
     THEN /\ last' = Resp("reset_progress", HTTP_404_NOT_FOUND, 0, 0, 0)
          /\ UNCHANGED <<requests, users, course, lessons, enrollments, logs, ratings, now>>
     ELSE /\ enrollments' = [enrollments EXCEPT ![e] = ResetRow(enrollments[e])]
          /\ logs' = [logs EXCEPT ![e] = <<LogRow(1, "progress_reset", 0, ResetMeta(now))>>]
          /\ last' = Resp("reset_progress", HTTP_200_OK, enrollments[e].course, e, 0)
          /\ UNCHANGED <<requests, users, course, lessons, ratings, now>>

\* the writable integer columns of CourseEnrollmentSerializer
WritableCounters == {"current_page", "pages_completed", "total_pages_viewed"}

\* PATCH /enrollments/{id}/ with one of the writable integer columns
\* (ModelViewSet.partial_update with CourseEnrollmentSerializer)
PatchEnrollment(u, e, f, v) ==
  /\ u \in users
  /\ IF ~OwnEnrollment(u, e)
     THEN /\ last' = Resp("patch", HTTP_404_NOT_FOUND, 0, 0, 0)
          /\ UNCHANGED <<requests, users, course, lessons, enrollments, logs, ratings, now>>
     ELSE IF v < 0
     THEN /\ last' = Resp("patch", HTTP_400_BAD_REQUEST, 0, 0, 0)
          /\ UNCHANGED <<requests, users, course, lessons, enrollments, logs, ratings, now>>
     ELSE /\ enrollments' = [enrollments EXCEPT ![e] =
               CASE f = "current_page" -> [@ EXCEPT !.current_page = v]
                 [] f = "pages_completed" -> [@ EXCEPT !.pages_completed = v]
                 [] f = "total_pages_viewed" -> [@ EXCEPT !.total_pages_viewed = v]]
          /\ last' = Resp("patch", HTTP_200_OK, enrollments[e].course, e, v)
          /\ UNCHANGED <<requests, users, course, lessons, logs, ratings, now>>

\* PATCH /enrollments/{id}/ with bookmarked_pages (a writable JSON column)
PatchBookmarks(u, e, list) ==
  /\ u \in users
  /\ IF ~OwnEnrollment(u, e)
     THEN /\ last' = Resp("patch_bookmarks", HTTP_404_NOT_FOUND, 0, 0, 0)
          /\ UNCHANGED <<requests, users, course, lessons, enrollments, logs, ratings, now>>
     ELSE /\ enrollments' = [enrollments EXCEPT ![e].bookmarked_pages = list]
          /\ last' = Resp("patch_bookmarks", HTTP_200_OK, enrollments[e].course, e, 0)
          /\ UNCHANGED <<requests, users, course, lessons, logs, ratings, now>>

\* GET /enrollments/  (ModelViewSet.list over get_queryset)
ListEnrollments(u) ==
  /\ u \in users
  /\ last' = Resp("list_enrollments", HTTP_200_OK, 0, u,
                  {e \in EnrollIds : OwnEnrollment(u, e)})
  /\ UNCHANGED <<requests, users, course, lessons, enrollments, logs, ratings, now>>

\* GET /enrollments/{id}/  (ModelViewSet.retrieve)
RetrieveEnrollment(u, e) ==
  /\ u \in users
  /\ last' = IF ~OwnEnrollment(u, e)
             THEN Resp("retrieve_enrollment", HTTP_404_NOT_FOUND, 0, e, u)
             ELSE Resp("retrieve_enrollment", HTTP_200_OK, enrollments[e].course, e, u)
  /\ UNCHANGED <<requests, users, course, lessons, enrollments, logs, ratings, now>>

\* CourseEnrollment.time_spent of enrollment e: the aggregate over its log
\* rows, 0 when there is none
TimeSpent(e) == SumTimeSpent(logs[e])

\* total_time_spent_seconds of DashboardViewSet.stats: the aggregate over the
\* log rows of the enrollments S of the user
RECURSIVE SumTimeSpentOver(_)
SumTimeSpentOver(S) ==
  IF S = {} THEN 0
  ELSE LET e == CHOOSE x \in S : TRUE IN TimeSpent(e) + SumTimeSpentOver(S \ {e})

TotalTimeSpentSeconds(u) == SumTimeSpentOver({e \in EnrollIds : OwnEnrollment(u, e)})

----------------------------------------------------------------------------
(* Lessons (LessonViewSet is read-only: lessons are written through LessonAdmin) *)

\* unique_together = ['course', 'page_number'], checked by the admin form
LessonPageTaken(ls, c, p, except) ==
  \E l \in LessonsOf(ls, c) : l # except /\ ls[l].page_number = p

\* admin "add lesson"
AdminCreateLesson(c, p, o) ==
  /\ Exists(course[c])
  /\ IF LessonPageTaken(lessons, c, p, 0)
     THEN /\ last' = Resp("create_lesson", HTTP_400_BAD_REQUEST, 0, 0, 0)
          /\ UNCHANGED <<requests, users, course, lessons, enrollments, logs, ratings, now>>
     ELSE /\ FreeIds(lessons, LessonIds) # {}
          /\ LET l == CHOOSE i \in FreeIds(lessons, LessonIds) :
                        \A j \in FreeIds(lessons, LessonIds) : i <= j
                 ls == [lessons EXCEPT ![l] =
                          [exists |-> TRUE, course |-> c, page_number |-> p, order |-> o]]
             IN /\ lessons' = ls
                /\ course' = update_course_lesson_count(course, ls, c)
                /\ last' = Resp("create_lesson", HTTP_200_OK, c, l, p)
          /\ UNCHANGED <<requests, users, enrollments, logs, ratings, now>>

\* admin "change lesson": course, page_number and order are editable
AdminChangeLesson(l, c, p, o) ==
  /\ Exists(lessons[l])
  /\ Exists(course[c])
  /\ IF LessonPageTaken(lessons, c, p, l)
     THEN /\ last' = Resp("change_lesson", HTTP_400_BAD_REQUEST, 0, 0, 0)
          /\ UNCHANGED <<requests, users, course, lessons, enrollments, logs, ratings, now>>
     ELSE LET ls == [lessons EXCEPT ![l] =
                       [exists |-> TRUE, course |-> c, page_number |-> p, order |-> o]]
          IN /\ lessons' = ls
             \* post_save recounts the lessons of instance.course, the new course
             /\ course' = update_course_lesson_count(course, ls, c)
             /\ last' = Resp("change_lesson", HTTP_200_OK, c, l, p)
             /\ UNCHANGED <<requests, users, enrollments, logs, ratings, now>>

\* admin "delete lesson": no receiver is connected to post_delete of Lesson;
\* current_lesson is on_delete=SET_NULL
AdminDeleteLesson(l) ==
  /\ Exists(lessons[l])
  /\ lessons' = [lessons EXCEPT ![l] = NoRow]
  /\ enrollments' = [e \in EnrollIds |->
       IF Exists(enrollments[e]) /\ enrollments[e].current_lesson = l
       THEN [enrollments[e] EXCEPT !.current_lesson = Null]
       ELSE enrollments[e]]
  /\ last' = Resp("delete_lesson", HTTP_200_OK, lessons[l].course, l, 0)
  /\ UNCHANGED <<requests, users, course, logs, ratings, now>>

\* Lesson.next_lesson of lesson l: filter(course, order__gt).order_by('order')
\* .first(); among lessons of equal order the store returns any one, so the
\* operator is the set of the results the property can have (Null for None)
NextLessonOutcomes(ls, l) ==
  LET after == {n \in LessonsOf(ls, ls[l].course) : ls[n].order > ls[l].order}
  IN IF after = {} THEN {Null}
     ELSE {n \in after : \A k \in after : ls[n].order <= ls[k].order}

\* Lesson.previous_lesson of lesson l: filter(course, order__lt)
\* .order_by('-order').first()
PreviousLessonOutcomes(ls, l) ==
  LET before == {n \in LessonsOf(ls, ls[l].course) : ls[n].order < ls[l].order}
  IN IF before = {} THEN {Null}
     ELSE {n \in before : \A k \in before : ls[n].order >= ls[k].order}

\* the lessons met by following next_lesson from the lessons S, n times
RECURSIVE FollowNext(_, _, _)
FollowNext(ls, S, n) ==
  IF n = 0 THEN S
  ELSE FollowNext(ls, S \cup (UNION {NextLessonOutcomes(ls, l) : l \in S} \ {Null}), n - 1)

\* CourseEnrollment.objects.filter(user=req, course=c).exists()
IsEnrolled(req, c) == EnrollmentOf(req, c) # {}

\* LessonViewSet.get_queryset: the status it raises (200 when it returns)
\* and the lessons it selects
LessonQueryset(req, cparam) ==
  IF cparam = NoParam
  THEN [status |-> HTTP_200_OK, rows |-> {l \in LessonIds : Exists(lessons[l])}]
  ELSE IF ~Exists(course[cparam]) THEN [status |-> HTTP_404_NOT_FOUND, rows |-> {}]
  ELSE IF ~course[cparam].is_public /\ course[cparam].creator # req /\
          (req = Anonymous \/ ~IsEnrolled(req, cparam))
       THEN [status |-> 403, rows |-> {}]
       ELSE [status |-> HTTP_200_OK, rows |-> LessonsOf(lessons, cparam)]

\* IsEnrolledOrReadOnly.has_object_permission for a safe method on a lesson
LessonObjectPermission(req, l) ==
  course[lessons[l].course].is_public \/ course[lessons[l].course].creator = req

\* GET /lessons/?course={slug}  (ReadOnlyModelViewSet.list)
ListLessons(req, cparam) ==
  /\ req \in users \cup {Anonymous}
  /\ LET qs == LessonQueryset(req, cparam)
     IN last' = Resp("list_lessons", qs.status, cparam, req, qs.rows)
  /\ UNCHANGED <<requests, users, course, lessons, enrollments, logs, ratings, now>>

\* GET /lessons/{id}/?course={slug}  (ReadOnlyModelViewSet.retrieve:
\* get_object looks the lesson up in the queryset, then checks the object
\* permissions)
RetrieveLesson(req, l, cparam) ==
  /\ req \in users \cup {Anonymous}
  /\ LET qs == LessonQueryset(req, cparam)
     IN last' = IF qs.status # HTTP_200_OK
                THEN Resp("retrieve_lesson", qs.status, cparam, req, {})
                ELSE IF l \notin qs.rows
                     THEN Resp("retrieve_lesson", HTTP_404_NOT_FOUND, cparam, req, {})
                     ELSE IF ~LessonObjectPermission(req, l)
                          THEN Resp("retrieve_lesson", 403, cparam, req, {})
                          ELSE Resp("retrieve_lesson", HTTP_200_OK, cparam, req, {l})
  /\ UNCHANGED <<requests, users, course, lessons, enrollments, logs, ratings, now>>

----------------------------------------------------------------------------
(* Ratings (CourseRatingViewSet) *)

\* the lookup with the test on the excepted row inverted
RatingTakenSameRow(rs, u, c, except) ==
  \E r \in RatingsOf(rs, c) : r = except /\ rs[r].user = u

\* CourseRating.objects.filter(user=u, course=c), without the row `except`
RatingTaken(rs, u, c, except) ==
  \E r \in RatingsOf(rs, c) : r # except /\ rs[r].user = u

\* POST /ratings/
CreateRating(u, c, r) ==
  /\ u \in users
  /\ IF ~Exists(course[c]) \/ r \notin 1..5 \/ RatingTaken(ratings, u, c, 0)
     THEN /\ last' = Resp("create_rating", HTTP_400_BAD_REQUEST, c, 0, r)
          /\ UNCHANGED <<requests, users, course, lessons, enrollments, logs, ratings, now>>
     ELSE /\ FreeIds(ratings, RatingIds) # {}
          /\ LET id == CHOOSE i \in FreeIds(ratings, RatingIds) :
                         \A j \in FreeIds(ratings, RatingIds) : i <= j
                 rs == [ratings EXCEPT ![id] =
                          [exists |-> TRUE, user |-> u, course |-> c, rating |-> r]]
             IN /\ ratings' = rs
                /\ course' = update_course_average_rating(course, rs, c)
                /\ last' = Resp("create_rating", HTTP_201_CREATED, c, id, r)
          /\ UNCHANGED <<requests, users, lessons, enrollments, logs, now>>

\* PUT /ratings/{id}/: course and rating are writable, user is read-only;
\* the queryset is not scoped to the requester
UpdateRating(u, id, c, r) ==
  /\ u \in users
  /\ IF ~Exists(ratings[id])
     THEN /\ last' = Resp("update_rating", HTTP_404_NOT_FOUND, 0, 0, 0)
          /\ UNCHANGED <<requests, users, course, lessons, enrollments, logs, ratings, now>>
     ELSE IF ~Exists(course[c]) \/ r \notin 1..5
     THEN /\ last' = Resp("update_rating", HTTP_400_BAD_REQUEST, 0, 0, 0)
          /\ UNCHANGED <<requests, users, course, lessons, enrollments, logs, ratings, now>>
     ELSE IF RatingTaken(ratings, ratings[id].user, c, id)
     \* unique_together = ['user', 'course'] is enforced by the store only
     THEN /\ last' = Resp("update_rating", 500, 0, 0, 0)
          /\ UNCHANGED <<requests, users, course, lessons, enrollments, logs, ratings, now>>
     ELSE LET rs == [ratings EXCEPT ![id] = [@ EXCEPT !.course = c, !.rating = r]]
          IN /\ ratings' = rs
             \* post_save recomputes the mean of instance.course, the new course
             /\ course' = update_course_average_rating(course, rs, c)
             /\ last' = Resp("update_rating", HTTP_200_OK, c, id, r)
             /\ UNCHANGED <<requests, users, lessons, enrollments, logs, now>>

\* DELETE /ratings/{id}/
DeleteRating(u, id) ==
  /\ u \in users
  /\ IF ~Exists(ratings[id])
     THEN /\ last' = Resp("delete_rating", HTTP_404_NOT_FOUND, 0, 0, 0)
          /\ UNCHANGED <<requests, users, course, lessons, enrollments, logs, ratings, now>>
     ELSE LET rs == [ratings EXCEPT ![id] = NoRow]
          IN /\ ratings' = rs
             /\ course' = update_course_average_rating(course, rs, ratings[id].course)
             /\ last' = Resp("delete_rating", 204, ratings[id].course, id, 0)
             /\ UNCHANGED <<requests, users, lessons, enrollments, logs, now>>

----------------------------------------------------------------------------
(* Cascading deletes (on_delete=CASCADE) *)

\* the store after the courses DC and the rows of the users DU are deleted;
\* of the deleted child rows only CourseRating has a post_delete receiver
CascadeCourse(DC, DU) ==
  LET delR == {r \in RatingIds : Exists(ratings[r]) /\
                 (ratings[r].course \in DC \/ ratings[r].user \in DU)}
      rs == [r \in RatingIds |-> IF r \in delR THEN NoRow ELSE ratings[r]]
      touched == {ratings[r].course : r \in delR}
  IN [c \in Courses |->
        IF c \in DC THEN NoRow
        ELSE IF c \in touched /\ Exists(course[c])
             THEN [course[c] EXCEPT !.average_rating = AvgRating(rs, c)]
             ELSE course[c]]

CascadeDelete(DC, DU) ==
  /\ course' = CascadeCourse(DC, DU)
  /\ ratings' = [r \in RatingIds |->
       IF Exists(ratings[r]) /\ (ratings[r].course \in DC \/ ratings[r].user \in DU)
       THEN NoRow ELSE ratings[r]]
  /\ lessons' = [l \in LessonIds |->
       IF Exists(lessons[l]) /\ lessons[l].course \in DC THEN NoRow ELSE lessons[l]]
  /\ enrollments' = [e \in EnrollIds |->
       IF Exists(enrollments[e]) /\
          (enrollments[e].course \in DC \/ enrollments[e].user \in DU)
       THEN NoRow ELSE enrollments[e]]
  /\ logs' = [e \in EnrollIds |->
       IF Exists(enrollments[e]) /\
          (enrollments[e].course \in DC \/ enrollments[e].user \in DU)
       THEN <<>> ELSE logs[e]]

\* deleting a user (admin, or the account endpoint): Course.creator,
\* CourseEnrollment.user and CourseRating.user cascade
DeleteUser(u) ==
  /\ u \in users
  /\ users' = users \ {u}
  /\ CascadeDelete({c \in Courses : Exists(course[c]) /\ course[c].creator = u}, {u})
  /\ last' = Resp("delete_user", 204, 0, 0, 0)
  /\ UNCHANGED <<requests, now>>

\* DELETE /courses/{slug}/  (CourseViewSet.destroy, IsCourseCreatorOrReadOnly)
DeleteCourse(u, c) ==
  /\ u \in users
  /\ IF ~VisibleCourse(u, c)
     THEN /\ last' = Resp("delete_course", HTTP_404_NOT_FOUND, 0, 0, 0)
          /\ UNCHANGED <<requests, users, course, lessons, enrollments, logs, ratings, now>>
     ELSE IF course[c].creator # u
     THEN /\ last' = Resp("delete_course", 403, 0, 0, 0)
          /\ UNCHANGED <<requests, users, course, lessons, enrollments, logs, ratings, now>>
     ELSE /\ CascadeDelete({c}, {})
          /\ last' = Resp("delete_course", 204, c, 0, 0)
          /\ UNCHANGED <<requests, users, now>>

----------------------------------------------------------------------------
(* Courses (CourseViewSet, CourseAdmin) *)

\* a Course instance built from the writable fields, the other columns at
\* their defaults
NewCourse(u, title, pub, file) ==
  [exists |-> TRUE, creator |-> u, is_public |-> pub, published_at |-> Null,
   title |-> title, description |-> <<>>, slug |-> <<>>,
   file |-> file, file_type |-> "", total_pages |-> 0,
   total_lessons |-> 0, total_enrollments |-> 0, average_rating |-> <<0, 1>>]

\* CourseAdmin.save_model: published_at follows is_public
PublishedOnAdminSave(inst, t) ==
  IF inst.is_public /\ inst.published_at = Null
  THEN [inst EXCEPT !.published_at = t]
  ELSE IF ~inst.is_public THEN [inst EXCEPT !.published_at = Null] ELSE inst

\* POST /courses/  (CourseViewSet.create -> CourseSerializer.create ->
\* Course.objects.create): slug and published_at are read-only
ApiCreateCourse(u, title, pub, file) ==
  /\ u \in users
  /\ IF file.ext \notin ValidExtensions
     THEN /\ last' = Resp("create_course", HTTP_400_BAD_REQUEST, 0, 0, 0)
          /\ UNCHANGED <<requests, users, course, lessons, enrollments, logs, ratings, now>>
     ELSE /\ FreeIds(course, Courses) # {}
          /\ LET c == CHOOSE i \in FreeIds(course, Courses) :
                        \A j \in FreeIds(course, Courses) : i <= j
             IN /\ course' = [course EXCEPT ![c] =
                                CourseSaved(course, NewCourse(u, title, pub, file))]
                /\ last' = Resp("create_course", HTTP_201_CREATED, c, 0, 0)
          /\ UNCHANGED <<requests, users, lessons, enrollments, logs, ratings, now>>

\* admin "add course"  (CourseAdmin.save_model, then Course.save)
AdminAddCourse(u, title, pub, file) ==
  /\ u \in users
  /\ IF file.ext \notin ValidExtensions
     THEN /\ last' = Resp("admin_add_course", HTTP_400_BAD_REQUEST, 0, 0, 0)
          /\ UNCHANGED <<requests, users, course, lessons, enrollments, logs, ratings, now>>
     ELSE /\ FreeIds(course, Courses) # {}
          /\ LET c == CHOOSE i \in FreeIds(course, Courses) :
                        \A j \in FreeIds(course, Courses) : i <= j
                 obj == PublishedOnAdminSave(NewCourse(u, title, pub, file), now)
             IN /\ course' = [course EXCEPT ![c] = CourseSaved(course, obj)]
                /\ last' = Resp("admin_add_course", HTTP_201_CREATED, c, 0, 0)
          /\ UNCHANGED <<requests, users, lessons, enrollments, logs, ratings, now>>

\* PATCH /courses/{slug}/ with title and is_public
\* (CourseViewSet.partial_update, IsCourseCreatorOrReadOnly); an empty slug
\* matches no route
ApiUpdateCourse(u, c, title, pub) ==
  /\ u \in users
  /\ IF ~VisibleCourse(u, c) \/ course[c].slug = <<>>
     THEN /\ last' = Resp("update_course", HTTP_404_NOT_FOUND, 0, 0, 0)
          /\ UNCHANGED <<requests, users, course, lessons, enrollments, logs, ratings, now>>
     ELSE IF course[c].creator # u
     THEN /\ last' = Resp("update_course", 403, 0, 0, 0)
          /\ UNCHANGED <<requests, users, course, lessons, enrollments, logs, ratings, now>>
     ELSE /\ course' = SaveCourse(course, c,
                         [course[c] EXCEPT !.title = title, !.is_public = pub])
          /\ last' = Resp("update_course", HTTP_200_OK, c, 0, 0)
          /\ UNCHANGED <<requests, users, lessons, enrollments, logs, ratings, now>>

\* admin "change course" with title and is_public
AdminChangeCourse(c, title, pub) ==
  /\ Exists(course[c])
  /\ course' = SaveCourse(course, c,
       PublishedOnAdminSave([course[c] EXCEPT !.title = title, !.is_public = pub], now))
  /\ last' = Resp("admin_change_course", HTTP_200_OK, c, 0, 0)
  /\ UNCHANGED <<requests, users, lessons, enrollments, logs, ratings, now>>

\* admin "delete course"
AdminDeleteCourse(c) ==
  /\ Exists(course[c])
  /\ CascadeDelete({c}, {})
  /\ last' = Resp("admin_delete_course", HTTP_200_OK, c, 0, 0)
  /\ UNCHANGED <<requests, users, now>>

\* GET /courses/?creator={username}&search={text}  (ModelViewSet.list)
ListCourses(req, creator, search) ==
  /\ req \in users \cup {Anonymous}
  /\ last' = Resp("list_courses", HTTP_200_OK, creator, req,
                  [search |-> search, rows |-> CourseQueryset(req, creator, search)])
  /\ UNCHANGED <<requests, users, course, lessons, enrollments, logs, ratings, now>>

\* GET /courses/{slug}/  (ModelViewSet.retrieve: get_object over get_queryset)
RetrieveCourse(req, c) ==
  /\ req \in users \cup {Anonymous}
  /\ last' = IF c \in CourseQueryset(req, NoParam, <<>>)
             THEN Resp("retrieve_course", HTTP_200_OK, c, req, 0)
             ELSE Resp("retrieve_course", HTTP_404_NOT_FOUND, c, req, 0)
  /\ UNCHANGED <<requests, users, course, lessons, enrollments, logs, ratings, now>>

----------------------------------------------------------------------------
(* The handlers statement by statement: every ORM call is one step, and
   other requests can run between two steps.  No handler opens a
   transaction, so every statement is committed when it returns. *)

\* update_progress: get_object and ProgressUpdateSerializer.is_valid
UpdateProgressLoad(w, u, e, p, t, a) ==
  /\ requests[w] = Idle
  /\ u \in users
  /\ IF ~OwnEnrollment(u, e)
     THEN /\ last' = Resp("update_progress", HTTP_404_NOT_FOUND, 0, 0, 0)
          /\ UNCHANGED <<requests, users, course, lessons, enrollments, logs, ratings, now>>
     ELSE IF ~ProgressUpdateValid(p, t, course[enrollments[e].course].total_pages)
     THEN /\ last' = Resp("update_progress", HTTP_400_BAD_REQUEST, 0, 0, 0)
          /\ UNCHANGED <<requests, users, course, lessons, enrollments, logs, ratings, now>>
     ELSE /\ Len(logs[e]) + 2 * Cardinality({v \in Workers : requests[v].id = e}) + 2 <= MaxLog
          /\ enrollments[e].total_pages_viewed < MaxLog
          /\ requests' = [requests EXCEPT ![w] =
               Request("update_progress", "save", u, e, p, t, a, enrollments[e], StartOf(e))]
          /\ UNCHANGED <<users, course, lessons, enrollments, logs, ratings, now, last>>

\* CourseEnrollment.update_progress up to the first self.save(): the fields
\* are computed from the loaded instance and every column is written back
UpdateProgressSave(w) ==
  /\ requests[w].op = "update_progress" /\ requests[w].pc = "save"
  /\ LET r == requests[w]
         self == [UpdateProgressRow(r.inst, r.page, lessons,
                                    course[r.inst.course].total_pages, now)
                    EXCEPT !.total_pages_viewed = r.inst.total_pages_viewed]
     IN /\ enrollments' = [enrollments EXCEPT ![r.id] = self]
        /\ requests' = [requests EXCEPT ![w].inst = self, ![w].pc = "log"]
  /\ UNCHANGED <<users, course, lessons, logs, ratings, now, last>>

\* CourseEnrollment.update_progress: UserProgressLog.objects.create(page_view)
UpdateProgressLog(w) ==
  /\ requests[w].op = "update_progress" /\ requests[w].pc = "log"
  /\ LET r == requests[w]
     IN logs' = [logs EXCEPT ![r.id] =
                   Append(@, LogRow(r.page, "page_view", r.time, EmptyMeta))]
  /\ requests' = [requests EXCEPT ![w].pc = "count"]
  /\ UNCHANGED <<users, course, lessons, enrollments, ratings, now, last>>

\* CourseEnrollment.update_progress: self.total_pages_viewed += 1 and
\* self.save(update_fields=['total_pages_viewed'])
UpdateProgressCount(w) ==
  /\ requests[w].op = "update_progress" /\ requests[w].pc = "count"
  /\ LET r == requests[w]
         self == [r.inst EXCEPT !.total_pages_viewed = @ + 1]
     IN /\ enrollments' = [enrollments EXCEPT ![r.id].total_pages_viewed =
                                                self.total_pages_viewed]
        /\ requests' = [requests EXCEPT ![w].inst = self, ![w].pc = "view_log"]
  /\ UNCHANGED <<users, course, lessons, logs, ratings, now, last>>

\* update_progress: the view's UserProgressLog.objects.create and the response
UpdateProgressRespond(w) ==
  /\ requests[w].op = "update_progress" /\ requests[w].pc = "view_log"
  /\ LET r == requests[w]
     IN /\ logs' = [logs EXCEPT ![r.id] =
                      Append(@, LogRow(r.page, r.action, r.time, EmptyMeta))]
        /\ last' = Resp("update_progress", HTTP_200_OK, r.inst.course, r.id, r.page)
  /\ requests' = [requests EXCEPT ![w] = Idle]
  /\ UNCHANGED <<users, course, lessons, enrollments, ratings, now>>

\* reset_progress: get_object and the assignments to the loaded instance
ResetProgressLoad(w, u, e) ==
  /\ requests[w] = Idle
  /\ u \in users
  /\ IF ~OwnEnrollment(u, e)
     THEN /\ last' = Resp("reset_progress", HTTP_404_NOT_FOUND, 0, 0, 0)
          /\ UNCHANGED <<requests, users, course, lessons, enrollments, logs, ratings, now>>
     ELSE /\ requests' = [requests EXCEPT ![w] =
               Request("reset_progress", "delete_logs", u, e, 0, 0, "",
                       ResetRow(enrollments[e]), StartOf(e))]
          /\ UNCHANGED <<users, course, lessons, enrollments, logs, ratings, now, last>>

\* reset_progress: UserProgressLog.objects.filter(enrollment=enrollment).delete()
ResetProgressDeleteLogs(w) ==
  /\ requests[w].op = "reset_progress" /\ requests[w].pc = "delete_logs"
  /\ logs' = [logs EXCEPT ![requests[w].id] = <<>>]
  /\ requests' = [requests EXCEPT ![w].pc = "save"]
  /\ UNCHANGED <<users, course, lessons, enrollments, ratings, now, last>>

\* reset_progress: enrollment.save()
ResetProgressSave(w) ==
  /\ requests[w].op = "reset_progress" /\ requests[w].pc = "save"
  /\ enrollments' = [enrollments EXCEPT ![requests[w].id] = requests[w].inst]
  /\ requests' = [requests EXCEPT ![w].pc = "log"]
  /\ UNCHANGED <<users, course, lessons, logs, ratings, now, last>>

\* reset_progress: the progress_reset log row and the response
ResetProgressRespond(w) ==
  /\ requests[w].op = "reset_progress" /\ requests[w].pc = "log"
  /\ LET r == requests[w]
     IN /\ logs' = [logs EXCEPT ![r.id] =
                      Append(@, LogRow(1, "progress_reset", 0, ResetMeta(now)))]
        /\ last' = Resp("reset_progress", HTTP_200_OK, r.inst.course, r.id, 0)
  /\ requests' = [requests EXCEPT ![w] = Idle]
  /\ UNCHANGED <<users, course, lessons, enrollments, ratings, now>>

\* unenroll: get_object, and course = enrollment.course, which loads the
\* Course instance
UnenrollLoad(w, u, e) ==
  /\ requests[w] = Idle
  /\ u \in users
  /\ IF ~OwnEnrollment(u, e)
     THEN /\ last' = Resp("unenroll", HTTP_404_NOT_FOUND, 0, 0, 0)
          /\ UNCHANGED <<requests, users, course, lessons, enrollments, logs, ratings, now>>
     ELSE /\ requests' = [requests EXCEPT ![w] =
               Request("unenroll", "delete", u, e, 0, 0, "",
                       course[enrollments[e].course], StartOf(e))]
          /\ UNCHANGED <<users, course, lessons, enrollments, logs, ratings, now, last>>

\* unenroll: enrollment.delete(), which cascades to the log rows
UnenrollDelete(w) ==
  /\ requests[w].op = "unenroll" /\ requests[w].pc = "delete"
  /\ enrollments' = [enrollments EXCEPT ![requests[w].id] = NoRow]
  /\ logs' = [logs EXCEPT ![requests[w].id] = <<>>]
  /\ requests' = [requests EXCEPT ![w].pc = "save"]
  /\ UNCHANGED <<users, course, lessons, ratings, now, last>>

\* unenroll: course.total_enrollments = max(0, ... - 1), course.save() of the
\* instance loaded before, and the response
UnenrollSaveCourse(w) ==
  /\ requests[w].op = "unenroll" /\ requests[w].pc = "save"
  /\ LET r == requests[w]
         c == r.start.row.course
         inst == [r.inst EXCEPT !.total_enrollments = DecrementFloor(@)]
     IN /\ course' = SaveCourse(course, c, inst)
        /\ last' = Resp("unenroll", HTTP_200_OK, c, r.id, 0)
  /\ requests' = [requests EXCEPT ![w] = Idle]
  /\ UNCHANGED <<users, lessons, enrollments, logs, ratings, now>>

\* enroll: get_object and the test for an enrollment of the pair
EnrollCheck(w, u, c) ==
  /\ requests[w] = Idle
  /\ u \in users
  /\ IF ~VisibleCourse(u, c)
     THEN /\ last' = Resp("enroll", HTTP_404_NOT_FOUND, 0, 0, 0)
          /\ UNCHANGED <<requests, users, course, lessons, enrollments, logs, ratings, now>>
     ELSE IF EnrollmentOf(u, c) # {}
     THEN /\ last' = Resp("enroll", HTTP_400_BAD_REQUEST, 0, 0, 0)
          /\ UNCHANGED <<requests, users, course, lessons, enrollments, logs, ratings, now>>
     ELSE /\ requests' = [requests EXCEPT ![w] =
               Request("enroll", "insert", u, c, 0, 0, "", NoRow, NoStart)]
          /\ UNCHANGED <<users, course, lessons, enrollments, logs, ratings, now, last>>

\* enroll: CourseEnrollment.objects.create; unique_together = ['user',
\* 'course'] makes the insert of a second row for the pair raise
\* IntegrityError, which the view does not catch
EnrollInsert(w) ==
  /\ requests[w].op = "enroll" /\ requests[w].pc = "insert"
  /\ LET r == requests[w]
     IN IF EnrollmentOf(r.user, r.id) # {}
        THEN /\ last' = Resp("enroll", 500, r.id, 0, 0)
             /\ requests' = [requests EXCEPT ![w] = Idle]
             /\ UNCHANGED <<users, course, lessons, enrollments, logs, ratings, now>>
        ELSE /\ FreeIds(enrollments, EnrollIds) # {}
             /\ LET e == CHOOSE i \in FreeIds(enrollments, EnrollIds) :
                           \A j \in FreeIds(enrollments, EnrollIds) : i <= j
                IN /\ enrollments' = [enrollments EXCEPT ![e] = NewEnrollment(r.user, r.id)]
                   /\ logs' = [logs EXCEPT ![e] = <<>>]
                   /\ requests' = [requests EXCEPT ![w].pc = "count", ![w].page = e]
             /\ UNCHANGED <<users, course, lessons, ratings, now, last>>

\* update_course_enrollment_count, run by the insert:
\* CourseEnrollment.objects.filter(course=instance.course).count()
EnrollCount(w) ==
  /\ requests[w].op = "enroll" /\ requests[w].pc = "count"
  /\ requests' = [requests EXCEPT ![w].pc = "update",
                                  ![w].val = Cardinality(EnrollmentsOf(requests[w].id))]
  /\ UNCHANGED <<users, course, lessons, enrollments, logs, ratings, now, last>>

\* update_course_enrollment_count: Course.objects.filter(id=...).update(
\* total_enrollments=...), then the response of the view
EnrollRespond(w) ==
  /\ requests[w].op = "enroll" /\ requests[w].pc = "update"
  /\ LET r == requests[w]
     IN /\ course' = IF Exists(course[r.id])
                     THEN [course EXCEPT ![r.id].total_enrollments = r.val]
                     ELSE course
        /\ last' = Resp("enroll", HTTP_201_CREATED, r.id, r.page, 0)
  /\ requests' = [requests EXCEPT ![w] = Idle]
  /\ UNCHANGED <<users, lessons, enrollments, logs, ratings, now>>

\* Course.enroll_user(user) on a Course instance the caller has loaded
EnrollUserLoad(w, u, c) ==
  /\ requests[w] = Idle
  /\ u \in users
  /\ Exists(course[c])
  /\ course[c].total_enrollments < MaxCounter
  /\ requests' = [requests EXCEPT ![w] =
       Request("enroll_user", "get_or_create", u, c, 0, 0, "", course[c], NoStart)]
  /\ UNCHANGED <<users, course, lessons, enrollments, logs, ratings, now, last>>

\* Course.enroll_user: CourseEnrollment.objects.get_or_create, with the
\* post_save receiver when the row is created
EnrollUserGetOrCreate(w) ==
  /\ requests[w].op = "enroll_user" /\ requests[w].pc = "get_or_create"
  /\ LET r == requests[w]
     IN IF EnrollmentOf(r.user, r.id) # {}
        THEN /\ last' = Resp("enroll_user", HTTP_200_OK, r.id,
                             CHOOSE e \in EnrollmentOf(r.user, r.id) : TRUE, 0)
             /\ requests' = [requests EXCEPT ![w] = Idle]
             /\ UNCHANGED <<users, course, lessons, enrollments, logs, ratings, now>>
        ELSE /\ FreeIds(enrollments, EnrollIds) # {}
             /\ LET e == CHOOSE i \in FreeIds(enrollments, EnrollIds) :
                           \A j \in FreeIds(enrollments, EnrollIds) : i <= j
                    enrs == [enrollments EXCEPT ![e] = NewEnrollment(r.user, r.id)]
                IN /\ enrollments' = enrs
                   /\ logs' = [logs EXCEPT ![e] = <<>>]
                   /\ course' = update_course_enrollment_count(course, enrs, r.id, TRUE)
                   /\ requests' = [requests EXCEPT ![w].pc = "save", ![w].val = e]
             /\ UNCHANGED <<users, lessons, ratings, now, last>>

\* Course.enroll_user: self.total_enrollments += 1 and self.save() of the
\* instance loaded before
EnrollUserSaveCourse(w) ==
  /\ requests[w].op = "enroll_user" /\ requests[w].pc = "save"
  /\ LET r == requests[w]
         self == [r.inst EXCEPT !.total_enrollments = @ + 1]
     IN /\ course' = SaveCourse(course, r.id, self)
        /\ last' = Resp("enroll_user", HTTP_201_CREATED, r.id, r.val, 0)
  /\ requests' = [requests EXCEPT ![w] = Idle]
  /\ UNCHANGED <<users, lessons, enrollments, logs, ratings, now>>

\* a request that ends between two of its statements (the statement raises,
\* the worker is stopped, the connection to the store is lost): the response
\* is a server error and the statements that returned stay committed
RequestFails(w) ==
  /\ requests[w] # Idle
  /\ last' = Resp(requests[w].op, 500, 0, requests[w].id, 0)
  /\ requests' = [requests EXCEPT ![w] = Idle]
  /\ UNCHANGED <<users, course, lessons, enrollments, logs, ratings, now>>

----------------------------------------------------------------------------
(* Specifications *)

\* enrolling and removing enrollments
NextEnrollment ==
  \/ \E u \in Users, c \in Courses : Enroll(u, c)
  \/ \E u \in Users, c \in Courses : EnrollUser(u, c)
  \/ \E u \in Users, e \in EnrollIds : Unenroll(u, e)
  \/ \E u \in Users, e \in EnrollIds : DestroyEnrollment(u, e)
  \/ \E u \in Users : DeleteUser(u)

SpecEnrollment == InitPaged /\ [][NextEnrollment]_vars

\* the operations on an enrollment's progress, requested by one learner;
\* the course has a lesson on its first page or none
ProgressUsers == {1}
ProgressCourses == {1}
ProgressNotePages == {0, 1}
NextProgress ==
  \/ Tick
  \/ \E u \in ProgressUsers, c \in ProgressCourses : Enroll(u, c)
  \/ \E c \in ProgressCourses : AdminCreateLesson(c, 1, 0)
  \/ \E u \in ProgressUsers, e \in EnrollIds, p \in PageInputs :
       UpdateProgress(u, e, p, 0, "page_view")
  \/ \E u \in ProgressUsers, e \in EnrollIds, p \in PageInputs : Bookmark(u, e, p)
  \/ \E u \in ProgressUsers, e \in EnrollIds, p \in ProgressNotePages, n \in NoteInputs :
       AddNote(u, e, p, n)
  \/ \E u \in ProgressUsers, e \in EnrollIds : ResetProgress(u, e)
  \/ \E u \in ProgressUsers, e \in EnrollIds : Unenroll(u, e)
  \/ \E u \in ProgressUsers, e \in EnrollIds : DestroyEnrollment(u, e)

SpecProgress == Init /\ [][NextProgress]_vars

\* the enrollment resource: the custom actions next to the generic
\* partial update of the ModelViewSet
ResourcePatchInputs == {0, 3}
NextResource ==
  \/ \E u \in ProgressUsers, c \in ProgressCourses : Enroll(u, c)
  \/ \E u \in ProgressUsers, e \in EnrollIds : UpdateProgress(u, e, 2, 0, "page_view")
  \/ \E u \in ProgressUsers, e \in EnrollIds : Bookmark(u, e, 1)
  \/ \E u \in ProgressUsers, e \in EnrollIds : AddNote(u, e, 1, "ab")
  \/ \E u \in ProgressUsers, e \in EnrollIds : ResetProgress(u, e)
  \/ \E u \in ProgressUsers, e \in EnrollIds, f \in WritableCounters, v \in ResourcePatchInputs :
       PatchEnrollment(u, e, f, v)
  \/ \E u \in ProgressUsers, e \in EnrollIds, l \in BookmarkListInputs : PatchBookmarks(u, e, l)

SpecResource == Init /\ [][NextResource]_vars

\* bookmark requests of one learner, between page views and resets
NextBookmark ==
  \/ \E u \in ProgressUsers, c \in ProgressCourses : Enroll(u, c)
  \/ \E u \in ProgressUsers, e \in EnrollIds, p \in PageInputs : Bookmark(u, e, p)
  \/ \E u \in ProgressUsers, e \in EnrollIds : UpdateProgress(u, e, 1, 0, "page_view")
  \/ \E u \in ProgressUsers, e \in EnrollIds : ResetProgress(u, e)

SpecBookmark == Init /\ [][NextBookmark]_vars

\* lesson creations and deletions
NextLesson ==
  \/ \E c \in Courses, p \in PageInputs, o \in OrderInputs : AdminCreateLesson(c, p, o)
  \/ \E l \in LessonIds : AdminDeleteLesson(l)
  \/ \E u \in Users, c \in Courses : DeleteCourse(u, c)

SpecLesson == InitPaged /\ [][NextLesson]_vars

\* lessons edited in place
NextLessonChange ==
  \/ NextLesson
  \/ \E l \in LessonIds, c \in Courses, p \in PageInputs, o \in OrderInputs :
       AdminChangeLesson(l, c, p, o)

SpecLessonChange == InitPaged /\ [][NextLessonChange]_vars

\* the operations on ratings
NextRating ==
  \/ \E u \in Users, c \in Courses, r \in RatingInputs : CreateRating(u, c, r)
  \/ \E u \in Users, id \in RatingIds, c \in Courses, r \in RatingInputs :
       UpdateRating(u, id, c, r)
  \/ \E u \in Users, id \in RatingIds : DeleteRating(u, id)
  \/ \E u \in Users : DeleteUser(u)
  \/ \E u \in Users, c \in Courses : DeleteCourse(u, c)

SpecRating == InitPaged /\ [][NextRating]_vars

\* courses made public and private, through the API and through the admin
PublishTitles == {<<"a", "b">>}
PublishFiles == {PdfFile(2)}
NextPublish ==
  \/ Tick
  \/ \E u \in Users, t \in PublishTitles, pub \in BOOLEAN, f \in PublishFiles :
       ApiCreateCourse(u, t, pub, f)
  \/ \E u \in Users, t \in PublishTitles, pub \in BOOLEAN, f \in PublishFiles :
       AdminAddCourse(u, t, pub, f)
  \/ \E u \in Users, c \in Courses, t \in PublishTitles, pub \in BOOLEAN :
       ApiUpdateCourse(u, c, t, pub)
  \/ \E c \in Courses, t \in PublishTitles, pub \in BOOLEAN : AdminChangeCourse(c, t, pub)

SpecPublish == InitNoCourses /\ [][NextPublish]_vars

\* courses created under colliding titles, saved again and deleted
SlugTitles == {<<"A", "b">>, <<"a", "b">>, <<"a", "b", "-", "1">>, <<"!">>}
SlugUsers == {1}
NextSlug ==
  \/ \E u \in SlugUsers, t \in SlugTitles : ApiCreateCourse(u, t, FALSE, PdfFile(2))
  \/ \E u \in SlugUsers, c \in Courses, t \in SlugTitles : ApiUpdateCourse(u, c, t, FALSE)
  \/ \E c \in Courses, t \in SlugTitles : AdminChangeCourse(c, t, FALSE)
  \/ \E c \in Courses : AdminDeleteCourse(c)

SpecSlug == InitNoCourses /\ [][NextSlug]_vars

\* uploads of PDF and DOCX documents, and later saves of the course
UploadTitles == {<<"a", "b">>}
UploadFiles ==
  {PdfFile(2), PdfFile(0), DocxFile(25, FALSE, 0), DocxFile(5, FALSE, 0),
   DocxFile(25, TRUE, 3), [PdfFile(1) EXCEPT !.ext = "txt"]}
NextUpload ==
  \/ \E u \in Users, t \in UploadTitles, f \in UploadFiles : ApiCreateCourse(u, t, FALSE, f)
  \/ \E u \in Users, t \in UploadTitles, f \in UploadFiles : AdminAddCourse(u, t, FALSE, f)
  \/ \E c \in Courses, t \in UploadTitles : AdminChangeCourse(c, t, FALSE)
  \/ \E c \in Courses : AdminDeleteCourse(c)

SpecUpload == InitNoCourses /\ [][NextUpload]_vars

\* lessons read by the creators, by enrolled and other learners and without
\* credentials
NextLessonRead ==
  \/ \E c \in Courses : AdminCreateLesson(c, 1, 0)
  \/ \E u \in Users, c \in Courses : EnrollUser(u, c)
  \/ \E req \in Requesters, cp \in Courses \cup {NoParam} : ListLessons(req, cp)
  \/ \E req \in Requesters, l \in LessonIds, cp \in Courses \cup {NoParam} :
       RetrieveLesson(req, l, cp)

SpecLessonRead == InitPaged /\ [][NextLessonRead]_vars

\* every operation of the enrollment resource, requested by every user on
\* every enrollment id; one learner at a time is enrolled
NoEnrollment == \A e \in EnrollIds : ~Exists(enrollments[e])
\* the ids addressed: the id of the enrollment and an id without a row
OwnershipIds == {1, MaxEnrollments}
NextOwnership ==
  \/ \E u \in Users, c \in Courses : NoEnrollment /\ Enroll(u, c)
  \/ \E u \in Users : ListEnrollments(u)
  \/ \E u \in Users, e \in OwnershipIds : RetrieveEnrollment(u, e)
  \/ \E u \in Users, e \in OwnershipIds : UpdateProgress(u, e, 1, 0, "page_view")
  \/ \E u \in Users, e \in OwnershipIds : Bookmark(u, e, 1)
  \/ \E u \in Users, e \in OwnershipIds : AddNote(u, e, 1, "ab")
  \/ \E u \in Users, e \in OwnershipIds : ResetProgress(u, e)
  \/ \E u \in Users, e \in OwnershipIds : PatchEnrollment(u, e, "current_page", 3)
  \/ \E u \in Users, e \in OwnershipIds : PatchBookmarks(u, e, <<1>>)
  \/ \E u \in Users, e \in OwnershipIds : Unenroll(u, e)
  \/ \E u \in Users, e \in OwnershipIds : DestroyEnrollment(u, e)

SpecOwnership == InitPaged /\ [][NextOwnership]_vars

\* the catalogue as learners, the staff account and requesters without
\* credentials see it, while courses are renamed and made public or private
CatalogTitles == {<<"A", "b">>, <<"!">>}
SearchInputs == {<<>>, <<"B">>}
NextCatalog ==
  \/ \E c \in Courses, t \in CatalogTitles, pub \in BOOLEAN : AdminChangeCourse(c, t, pub)
  \/ \E req \in AllUsers \cup {Anonymous}, cr \in Users \cup {NoParam}, sp \in SearchInputs :
       ListCourses(req, cr, sp)
  \/ \E req \in AllUsers \cup {Anonymous}, c \in Courses : RetrieveCourse(req, c)
  \/ \E u \in AllUsers, c \in Courses : NoEnrollment /\ Enroll(u, c)

SpecCatalog == InitPaged /\ [][NextCatalog]_vars

\* rating requests, repeated for the same course, next to ratings moved to
\* another course and deleted
RepeatRatingInputs == {0, 3}
NextRatingRepeat ==
  \/ \E u \in Users, c \in Courses, r \in RepeatRatingInputs : CreateRating(u, c, r)
  \/ \E u \in Users, id \in RatingIds, c \in Courses : UpdateRating(u, id, c, 3)
  \/ \E u \in Users, id \in RatingIds : DeleteRating(u, id)

SpecRatingRepeat == InitPaged /\ [][NextRatingRepeat]_vars

\* notes written for two pages, rewritten and cleared by a reset
NotePages == {0, 1, 2}
NoteTexts == {"", "ab", "c"}
NextNote ==
  \/ \E u \in ProgressUsers, c \in ProgressCourses : Enroll(u, c)
  \/ \E u \in ProgressUsers, e \in EnrollIds, p \in NotePages, n \in NoteTexts :
       AddNote(u, e, p, n)
  \/ \E u \in ProgressUsers, e \in EnrollIds : ResetProgress(u, e)

SpecNote == InitPaged /\ [][NextNote]_vars

\* page views of one learner while lessons are added to and removed from
\* the learner's course and the other courses
ResolvePages == {1, 2}
ResolveCourses == {1, NumCourses}
ResolveViews == {1, 2, 3}
NextResolve ==
  \/ \E u \in ProgressUsers, c \in ProgressCourses : NoEnrollment /\ Enroll(u, c)
  \/ \E c \in ResolveCourses, p \in ResolvePages : AdminCreateLesson(c, p, 0)
  \/ \E l \in LessonIds : AdminDeleteLesson(l)
  \/ \E u \in ProgressUsers, e \in OwnershipIds, p \in ResolveViews :
       UpdateProgress(u, e, p, 0, "page_view")
  \/ \E u \in ProgressUsers, e \in OwnershipIds : ResetProgress(u, e)

SpecResolve == InitPaged /\ [][NextResolve]_vars

\* the operations of a learner that leave total_pages of the course alone
NextCompletion ==
  \/ Tick
  \/ \E u \in ProgressUsers, c \in ProgressCourses : Enroll(u, c)
  \/ \E u \in ProgressUsers, e \in EnrollIds, p \in PageInputs :
       UpdateProgress(u, e, p, 0, "page_view")
  \/ \E u \in ProgressUsers, e \in EnrollIds : Bookmark(u, e, 1)
  \/ \E u \in ProgressUsers, e \in EnrollIds : AddNote(u, e, 1, "ab")
  \/ \E u \in ProgressUsers, e \in EnrollIds : ResetProgress(u, e)

SpecCompletion == Init /\ [][NextCompletion]_vars

\* page views that report the time spent on the page
NextTime ==
  \/ \E u \in ProgressUsers, c \in ProgressCourses : Enroll(u, c)
  \/ \E u \in ProgressUsers, e \in EnrollIds, t \in TimeInputs, a \in ActionInputs :
       UpdateProgress(u, e, 1, t, a)
  \/ \E u \in ProgressUsers, e \in EnrollIds : ResetProgress(u, e)
  \/ \E u \in ProgressUsers, e \in EnrollIds : Unenroll(u, e)

SpecTime == InitPaged /\ [][NextTime]_vars

\* one learner's requests on the enrollment, served one at a time, each of
\* which can end between two of its statements
FailureWorkers == {1}
FailurePages == {1, 2}
NextFailure ==
  \/ \E u \in ProgressUsers, c \in ProgressCourses : AllIdle /\ NoEnrollment /\ Enroll(u, c)
  \/ \E w \in FailureWorkers, u \in ProgressUsers, e \in OwnershipIds, p \in FailurePages :
       UpdateProgressLoad(w, u, e, p, 0, "page_view")
  \/ \E w \in FailureWorkers : UpdateProgressSave(w)
  \/ \E w \in FailureWorkers : UpdateProgressLog(w)
  \/ \E w \in FailureWorkers : UpdateProgressCount(w)
  \/ \E w \in FailureWorkers : UpdateProgressRespond(w)
  \/ \E w \in FailureWorkers, u \in ProgressUsers, e \in OwnershipIds :
       ResetProgressLoad(w, u, e)
  \/ \E w \in FailureWorkers : ResetProgressDeleteLogs(w)
  \/ \E w \in FailureWorkers : ResetProgressSave(w)
  \/ \E w \in FailureWorkers : ResetProgressRespond(w)
  \/ \E w \in FailureWorkers, u \in ProgressUsers, e \in OwnershipIds : UnenrollLoad(w, u, e)
  \/ \E w \in FailureWorkers : UnenrollDelete(w)
  \/ \E w \in FailureWorkers : UnenrollSaveCourse(w)
  \/ \E w \in FailureWorkers : RequestFails(w)

SpecFailure == InitPaged /\ [][NextFailure]_vars

\* two update-progress requests of one learner for the same enrollment,
\* served at the same time; the requests carry an action of their own, which
\* tells the view's log row from the model's
RacePages == {1, 2, 3}
NextUpdateRace ==
  \/ \E u \in ProgressUsers, c \in ProgressCourses : AllIdle /\ NoEnrollment /\ Enroll(u, c)
  \/ \E w \in Workers, u \in ProgressUsers, e \in OwnershipIds, p \in RacePages :
       UpdateProgressLoad(w, u, e, p, 0, "quiz_complete")
  \/ \E w \in Workers : UpdateProgressSave(w)
  \/ \E w \in Workers : UpdateProgressLog(w)
  \/ \E w \in Workers : UpdateProgressCount(w)
  \/ \E w \in Workers : UpdateProgressRespond(w)

SpecUpdateRace == InitPaged /\ [][NextUpdateRace]_vars

\* an unenroll request or a call of Course.enroll_user, with ratings and
\* lessons of the same course created while it runs
CounterWorkers == {1}
CounterCourses == {1}
CounterRatings == {3, 5}
NextCounterRace ==
  \/ \E u \in Users, c \in CounterCourses : AllIdle /\ Enroll(u, c)
  \/ \E w \in CounterWorkers, u \in Users, e \in EnrollIds : UnenrollLoad(w, u, e)
  \/ \E w \in CounterWorkers : UnenrollDelete(w)
  \/ \E w \in CounterWorkers : UnenrollSaveCourse(w)
  \/ \E w \in CounterWorkers, u \in Users, c \in CounterCourses : EnrollUserLoad(w, u, c)
  \/ \E w \in CounterWorkers : EnrollUserGetOrCreate(w)
  \/ \E w \in CounterWorkers : EnrollUserSaveCourse(w)
  \/ \E u \in Users, c \in CounterCourses, r \in CounterRatings : CreateRating(u, c, r)
  \/ \E c \in CounterCourses, p \in ResolvePages : AdminCreateLesson(c, p, 0)

SpecCounterRace == InitPaged /\ [][NextCounterRace]_vars

\* enroll requests for one course, two of them served at the same time (of
\* the same learner or of two), and unenroll requests between them
NextEnrollRace ==
  \/ \E w \in Workers, u \in Users, c \in ProgressCourses : EnrollCheck(w, u, c)
  \/ \E w \in Workers : EnrollInsert(w)
  \/ \E w \in Workers : EnrollCount(w)
  \/ \E w \in Workers : EnrollRespond(w)
  \/ \E u \in Users, e \in EnrollIds : AllIdle /\ Unenroll(u, e)

SpecEnrollRace == InitPaged /\ [][NextEnrollRace]_vars

Next == NextEnrollRace \/ NextCounterRace \/ NextUpdateRace \/ NextFailure \/ NextTime \/ NextCompletion \/ NextResolve \/ NextNote \/ NextEnrollment \/ NextProgress \/ NextResource \/ NextBookmark \/ NextPublish \/ NextSlug \/ NextUpload \/ NextLessonRead \/ NextOwnership \/ NextCatalog \/ NextRatingRepeat \/ NextLessonChange \/ NextRating

Spec == Init /\ [][Next]_vars

----------------------------------------------------------------------------
(* Properties *)

\* total_pages of the course of enrollment e
TotalPagesOf(e) == course[enrollments[e].course].total_pages

\* C1: for every enrollment, 0 <= pages_completed <= course.total_pages in
\* every state reached through update-progress requests with any page_number >= 1
C1_PagesCompletedWithinCourse ==
  \A e \in EnrollIds :
    Exists(enrollments[e]) =>
      /\ 0 <= enrollments[e].pages_completed
      /\ enrollments[e].pages_completed <= TotalPagesOf(e)

\* the step is the accepted request `op` on the enrollment row e
Accepted(op, e) ==
  /\ last'.op = op
  /\ last'.status \in {HTTP_200_OK, HTTP_201_CREATED}
  /\ last'.id = e
  /\ Exists(enrollments[e])

\* C2: an accepted updateProgress(p) leaves pages_completed at the maximum of
\* its previous value and p, never lower than before, and current_page at p
C2_ProgressMonotonic ==
  [][\A e \in EnrollIds :
       (Accepted("update_progress", e) /\
        UpdateProgress(enrollments[e].user, e, last'.arg, 0, "page_view")) =>
         /\ enrollments'[e].pages_completed =
              Max(enrollments[e].pages_completed, last'.arg)
         /\ enrollments'[e].pages_completed >= enrollments[e].pages_completed
         /\ enrollments'[e].current_page = last'.arg]_vars

\* C2 witness: an accepted update to a page below the progress already made
C2_Witness ==
  /\ last.op = "update_progress" /\ last.status = HTTP_200_OK
  /\ Exists(enrollments[last.id])
  /\ enrollments[last.id].current_page = last.arg
  /\ last.arg < enrollments[last.id].pages_completed
  /\ enrollments[last.id].total_pages_viewed = 2

\* C3: a completed enrollment keeps its completed_at, at the same timestamp,
\* through every operation except resetProgress, which is the only operation
\* that makes it null again
C3_CompletionTerminal ==
  [][\A e \in EnrollIds :
       (Exists(enrollments[e]) /\ Exists(enrollments'[e]) /\
        enrollments[e].completed_at # Null) =>
         IF Accepted("reset_progress", e) /\ ResetProgress(enrollments[e].user, e)
         THEN enrollments'[e].completed_at = Null
         ELSE enrollments'[e].completed_at = enrollments[e].completed_at]_vars

\* C3 witness: a completed enrollment after a later update to a page before
\* the last one, at a later time than its completion
C3_Witness ==
  /\ last.op = "update_progress" /\ last.status = HTTP_200_OK
  /\ Exists(enrollments[last.id])
  /\ enrollments[last.id].completed_at # Null
  /\ enrollments[last.id].completed_at < now
  /\ last.arg < TotalPagesOf(last.id)

\* the rows of one (user, course) pair in an enrollment table
PairRows(enrs, u, c) ==
  {e \in EnrollIds : Exists(enrs[e]) /\ enrs[e].user = u /\ enrs[e].course = c}

\* C4: enrolling a (user, course) pair leaves exactly one row for the pair and
\* total_enrollments exactly 1 above its value before; enrolling the pair
\* again (400 from the API action) changes no state
C4_EnrollTwiceCountsOnce ==
  [][\A u \in Users, c \in Courses :
       /\ ((Enroll(u, c) \/ EnrollUser(u, c)) /\ last'.status = HTTP_201_CREATED) =>
            /\ Cardinality(PairRows(enrollments', u, c)) = 1
            /\ course'[c].total_enrollments = course[c].total_enrollments + 1
       /\ ((Enroll(u, c) /\ last'.status = HTTP_400_BAD_REQUEST) \/
           (EnrollUser(u, c) /\ last'.status = HTTP_200_OK)) =>
            /\ Cardinality(PairRows(enrollments', u, c)) = 1
            /\ UNCHANGED <<users, course, lessons, enrollments, logs, ratings>>]_vars

\* C5: total_enrollments of every course equals the number of enrollment rows
\* that reference the course
C5_EnrollmentCountExact ==
  \A c \in Courses :
    Exists(course[c]) => course[c].total_enrollments = Cardinality(EnrollmentsOf(c))

\* C6: average_rating of every course equals the mean of the ratings that
\* exist for the course, 0.0 when there is none
C6_AverageIsMean ==
  \A c \in Courses :
    Exists(course[c]) => course[c].average_rating = AvgRating(ratings, c)

\* C7: total_lessons of every course equals the number of lesson rows of the course
C7_LessonCountExact ==
  \A c \in Courses :
    Exists(course[c]) => course[c].total_lessons = Cardinality(LessonsOf(lessons, c))

\* C8: resetProgress leaves the progress fields at their initial values,
\* bookmarks and notes empty, completed_at null, and exactly one log row,
\* the progress_reset row
C8_ResetClearsEverything ==
  [][\A e \in EnrollIds :
       (Accepted("reset_progress", e) /\ ResetProgress(enrollments[e].user, e)) =>
         /\ enrollments'[e].pages_completed = 0
         /\ enrollments'[e].total_pages_viewed = 0
         /\ enrollments'[e].current_page = DefaultCurrentPage
         /\ enrollments'[e].current_lesson = Null
         /\ enrollments'[e].bookmarked_pages = <<>>
         /\ enrollments'[e].notes = {}
         /\ enrollments'[e].completed_at = Null
         /\ Len(logs'[e]) = 1
         /\ logs'[e][1].action = "progress_reset"]_vars

\* C8 witness: a reset has run, after its course got a lesson and the clock moved
C8_Witness ==
  /\ last.op = "reset_progress" /\ last.status = HTTP_200_OK
  /\ Exists(enrollments[last.id])
  /\ Len(logs[last.id]) = 1
  /\ logs[last.id][1].metadata = ResetMeta(2)
  /\ LessonsOf(lessons, last.course) # {}

ProgressFields(row) ==
  <<row.current_page, row.pages_completed, row.total_pages_viewed, row.completed_at>>

\* C10: the progress fields of an enrollment change only in a step of
\* updateProgress or resetProgress
C10_ProgressOnlyByUpdateOrReset ==
  [][\A e \in EnrollIds :
       (Exists(enrollments[e]) /\ Exists(enrollments'[e]) /\
        ProgressFields(enrollments'[e]) # ProgressFields(enrollments[e])) =>
         \/ Accepted("update_progress", e) /\
              UpdateProgress(enrollments[e].user, e, last'.arg, 0, "page_view")
         \/ Accepted("reset_progress", e) /\ ResetProgress(enrollments[e].user, e)]_vars

\* a list without a repeated entry
NoDuplicates(list) == \A i, j \in 1..Len(list) : list[i] = list[j] => i = j

\* C11: bookmarked_pages never holds a page number twice, and a bookmark
\* request for a page already bookmarked is answered 200 and changes neither
\* bookmarked_pages nor the log
C11_BookmarkIdempotent ==
  /\ [](\A e \in EnrollIds :
          Exists(enrollments[e]) => NoDuplicates(enrollments[e].bookmarked_pages))
  /\ [][\A e \in EnrollIds :
          (Accepted("bookmark", e) /\ Bookmark(enrollments[e].user, e, last'.arg) /\
           InList(last'.arg, enrollments[e].bookmarked_pages)) =>
            /\ last'.status = HTTP_200_OK
            /\ enrollments'[e].bookmarked_pages = enrollments[e].bookmarked_pages
            /\ logs'[e] = logs[e]]_vars

\* C11 witness: a bookmark request for a page bookmarked before the last page
\* view was answered 200
C11_Witness ==
  /\ last.op = "bookmark" /\ last.status = HTTP_200_OK
  /\ Exists(enrollments[last.id])
  /\ enrollments[last.id].bookmarked_pages = <<2, 1>>
  /\ last.arg = 2
  /\ logs[last.id][Len(logs[last.id])].action = "page_view"

\* C12 as stated: bookmark with page_number > total_pages is answered 400 and
\* leaves bookmarked_pages and the log unchanged; with page_number <=
\* total_pages and not yet bookmarked it appends the page and one bookmark log row
C12_BookmarkRangeAsStated ==
  [][\A u \in ProgressUsers, e \in EnrollIds, p \in PageInputs :
       (OwnEnrollment(u, e) /\ Bookmark(u, e, p)) =>
         /\ p > TotalPagesOf(e) =>
              /\ last'.status = HTTP_400_BAD_REQUEST
              /\ enrollments'[e].bookmarked_pages = enrollments[e].bookmarked_pages
              /\ logs'[e] = logs[e]
         /\ (p <= TotalPagesOf(e) /\ ~InList(p, enrollments[e].bookmarked_pages)) =>
              /\ enrollments'[e].bookmarked_pages =
                   Append(enrollments[e].bookmarked_pages, p)
              /\ logs'[e] = Append(logs[e], LogRow(p, "bookmark", 0, AddedMeta))]_vars

\* C12 (amended): bookmark with page_number > total_pages is answered 400 and
\* leaves bookmarked_pages and the log unchanged; with 1 <= page_number <=
\* total_pages and not yet bookmarked it appends the page at the end of
\* bookmarked_pages and exactly one log row, with action bookmark
C12_BookmarkRange ==
  [][\A u \in ProgressUsers, e \in EnrollIds, p \in PageInputs :
       (OwnEnrollment(u, e) /\ Bookmark(u, e, p)) =>
         /\ p > TotalPagesOf(e) =>
              /\ last'.status = HTTP_400_BAD_REQUEST
              /\ enrollments'[e].bookmarked_pages = enrollments[e].bookmarked_pages
              /\ logs'[e] = logs[e]
         /\ (1 <= p /\ p <= TotalPagesOf(e) /\
             ~InList(p, enrollments[e].bookmarked_pages)) =>
              /\ last'.status = HTTP_200_OK
              /\ enrollments'[e].bookmarked_pages =
                   Append(enrollments[e].bookmarked_pages, p)
              /\ logs'[e] = Append(logs[e], LogRow(p, "bookmark", 0, AddedMeta))]_vars

\* C12 witness: the second page was bookmarked after the first, with a log
\* row for each
C12_Witness ==
  /\ last.op = "bookmark" /\ last.status = HTTP_200_OK /\ last.arg = 2
  /\ Exists(enrollments[last.id])
  /\ enrollments[last.id].bookmarked_pages = <<1, 2>>
  /\ Len(logs[last.id]) = 2
  /\ logs[last.id][2] = LogRow(2, "bookmark", 0, AddedMeta)

\* C13: an update-progress request with page_number > course.total_pages is
\* answered with a validation error and leaves the enrollment and its log
\* rows unchanged
C13_UpdateRejectsBeyondTotal ==
  [][\A u \in ProgressUsers, e \in EnrollIds, p \in PageInputs :
       (OwnEnrollment(u, e) /\ p > TotalPagesOf(e) /\
        UpdateProgress(u, e, p, 0, "page_view")) =>
         /\ last'.status = HTTP_400_BAD_REQUEST
         /\ enrollments'[e] = enrollments[e]
         /\ logs'[e] = logs[e]]_vars

\* C14: published_at is non-null exactly when is_public is true, in every
\* state reached through course creations and updates, API and admin
C14_PublishedIffPublic ==
  \A c \in Courses :
    Exists(course[c]) => (course[c].published_at # Null <=> course[c].is_public)

\* the stored slugs are pairwise distinct
SlugsDistinct ==
  \A c, d \in Courses :
    (Exists(course[c]) /\ Exists(course[d]) /\ course[c].slug = course[d].slug) => c = d

\* the step creates course c under the first free one of s, s-1, s-2, ...,
\* s being the slug of its title
CreatedWithFirstFreeSlug(c) ==
  LET s == Slugify(course'[c].title)
  IN \E k \in 0..NumCourses :
       /\ course'[c].slug = Suffixed(s, k)
       /\ ~SlugExists(course, Suffixed(s, k))
       /\ \A j \in 0..(k - 1) : SlugExists(course, Suffixed(s, j))

C16_DocxFallback ==
  /\ last.op \in {"create_course", "admin_add_course"} /\ last.status = HTTP_201_CREATED =>
       Exists(course[last.course])
  /\ \A c \in Courses :
       (Exists(course[c]) /\ IsDocx(course[c].file) /\ ~course[c].file.converts) =>
         /\ course[c].file_type = "docx"
         /\ course[c].total_pages = Max(1, course[c].file.paragraphs \div 10)

\* the course is public, or owned by the requester, or the requester is
\* enrolled in it
MayReadCourse(req, c) ==
  course[c].is_public \/ course[c].creator = req \/ (req # Anonymous /\ IsEnrolled(req, c))

\* C17: lesson list and lesson retrieval return a lesson only if its course is
\* public, owned by the requester or the requester is enrolled in it; a
\* request for the lessons of any other course is answered with a permission
\* error
C17_LessonsOnlyToReaders ==
  last.op \in {"list_lessons", "retrieve_lesson"} =>
    /\ last.status = HTTP_200_OK =>
         \A l \in last.arg : MayReadCourse(last.id, lessons[l].course)
    /\ (last.course # NoParam /\ Exists(course[last.course]) /\
        ~MayReadCourse(last.id, last.course)) => last.status = 403

\* the step is a request of user u that addresses enrollment e
AddressedBy(u, e) ==
  \/ RetrieveEnrollment(u, e)
  \/ UpdateProgress(u, e, 1, 0, "page_view")
  \/ Bookmark(u, e, 1)
  \/ AddNote(u, e, 1, "ab")
  \/ ResetProgress(u, e)
  \/ PatchEnrollment(u, e, "current_page", 3)
  \/ PatchBookmarks(u, e, <<1>>)
  \/ Unenroll(u, e)
  \/ DestroyEnrollment(u, e)

\* C18: the enrollment list holds the requester's rows only, and a request
\* that addresses another user's enrollment (retrieve, update, delete,
\* update-progress, bookmark, add-note, reset-progress, unenroll) is answered
\* 404 and changes neither that enrollment, nor its log rows, nor the courses
\* (stated as: a step that is not a 404 without any such change is not a
\* request of another user on the enrollment)
C18_OwnEnrollmentsOnly ==
  /\ [](last.op = "list_enrollments" =>
          \A e \in EnrollIds :
            e \in last.arg <=> (Exists(enrollments[e]) /\ enrollments[e].user = last.id))
  /\ [][\A e \in EnrollIds :
          \/ /\ last'.status = HTTP_404_NOT_FOUND
             /\ enrollments'[e] = enrollments[e]
             /\ logs'[e] = logs[e]
             /\ course' = course
          \/ ~\E u \in Users :
                Exists(enrollments[e]) /\ enrollments[e].user # u /\ AddressedBy(u, e)]_vars

\* C18 witness: a user asked for an enrollment that exists and belongs to
\* another user, who has made progress in it, and got 404
C18_Witness ==
  /\ last.op = "retrieve_enrollment" /\ last.status = HTTP_404_NOT_FOUND
  /\ Exists(enrollments[last.id])
  /\ enrollments[last.id].user # last.arg
  /\ enrollments[last.id].total_pages_viewed > 0

\* the courses the claim lists for a requester: the public ones without
\* credentials, the public and the own ones for a learner, all for staff
ListedFor(req) ==
  {c \in Courses :
     Exists(course[c]) /\
     (IF req = Anonymous THEN course[c].is_public
      ELSE IF req \notin StaffUsers THEN course[c].is_public \/ course[c].creator = req
      ELSE TRUE)}

\* C19: the course list returns exactly the public courses to a requester
\* without credentials, the public and the own courses to a learner and all
\* courses to staff, restricted by the creator and search filters when given;
\* enroll answers 404 exactly for the courses outside the requester's list
C19_CourseListByRole ==
  /\ [](last.op = "list_courses" =>
          last.arg.rows =
            {c \in ListedFor(last.id) :
               /\ last.course # NoParam => course[c].creator = last.course
               /\ last.arg.search # <<>> =>
                    (IContains(course[c].title, last.arg.search) \/
                     IContains(course[c].description, last.arg.search))})
  /\ [](last.op = "retrieve_course" =>
          (last.status = HTTP_404_NOT_FOUND <=> last.course \notin ListedFor(last.id)))
  /\ [][\A u \in AllUsers, c \in Courses :
          (last'.op = "enroll" /\ Enroll(u, c)) =>
            (last'.status = HTTP_404_NOT_FOUND <=> c \notin ListedFor(u))]_vars

\* C19 witness: a learner listed the courses when every course was private
\* and got the own course only
C19_Witness ==
  /\ last.op = "list_courses" /\ last.id \in Users /\ last.course = NoParam
  /\ \A c \in Courses : Exists(course[c]) /\ ~course[c].is_public
  /\ course[1].title = course[2].title
  /\ last.arg.search = <<>>
  /\ last.arg.rows = {c \in Courses : course[c].creator = last.id}
  /\ last.arg.rows # {} /\ last.arg.rows # Courses

\* C20: at most one rating exists per (user, course) pair, and a rating
\* request of a user for a course the user has rated is answered 400 and
\* changes neither the ratings nor average_rating
C20_OneRatingPerPair ==
  /\ [](\A r1, r2 \in RatingIds :
          (Exists(ratings[r1]) /\ Exists(ratings[r2]) /\
           ratings[r1].user = ratings[r2].user /\
           ratings[r1].course = ratings[r2].course) => r1 = r2)
  /\ [][\A u \in Users :
          (last'.op = "create_rating" /\ Exists(course[last'.course]) /\
           RatingTaken(ratings, u, last'.course, 0) /\
           CreateRating(u, last'.course, last'.arg)) =>
            /\ last'.status = HTTP_400_BAD_REQUEST
            /\ ratings' = ratings
            /\ course' = course]_vars

\* C20 witness: a rating request with a valid rating for an existing course
\* was answered 400, the course having a rating and the table a free row
C20_Witness ==
  /\ last.op = "create_rating" /\ last.status = HTTP_400_BAD_REQUEST
  /\ last.arg \in 1..5
  /\ Exists(course[last.course])
  /\ Cardinality(RatingsOf(ratings, last.course)) = 1
  /\ FreeIds(ratings, RatingIds) # {}

\* the keys of a notes object
NoteKeys(notes) == {kv[1] : kv \in notes}

\* C21: an accepted addNote(page_number, text) leaves notes[str(page_number)]
\* at text and every other key as it was, adds no key when the page had a
\* note, and appends exactly one log row, with action note_added and a
\* metadata that holds the length of the text and not the text
C21_NoteUpsert ==
  [][\A e \in EnrollIds, n \in NoteTexts :
       (Accepted("add_note", e) /\ AddNote(enrollments[e].user, e, last'.arg, n)) =>
         LET key == Str(last'.arg)
             before == enrollments[e].notes
             after == enrollments'[e].notes
         IN /\ {kv \in after : kv[1] = key} = {<<key, n>>}
            /\ {kv \in after : kv[1] # key} = {kv \in before : kv[1] # key}
            /\ key \in NoteKeys(before) => NoteKeys(after) = NoteKeys(before)
            /\ Cardinality(after) = Cardinality(NoteKeys(after))
            /\ Len(logs'[e]) = Len(logs[e]) + 1
            /\ SubSeq(logs'[e], 1, Len(logs[e])) = logs[e]
            /\ logs'[e][Len(logs'[e])].action = "note_added"
            /\ logs'[e][Len(logs'[e])].metadata = LengthMeta(Len(n))
            /\ logs'[e][Len(logs'[e])].metadata.text # n]_vars

\* C21 witness: three notes were written, the last one over the first, and
\* the note of the other page is still there
C21_Witness ==
  /\ last.op = "add_note" /\ last.status = HTTP_200_OK /\ last.arg = 1
  /\ Exists(enrollments[last.id])
  /\ enrollments[last.id].notes = {<<"1", "c">>, <<"2", "ab">>}
  /\ Len(logs[last.id]) = 3
  /\ logs[last.id][1].metadata = LengthMeta(2)
  /\ logs[last.id][3].metadata = LengthMeta(1)

\* C22: an accepted update-progress request appends exactly one log row, a
\* page_view row, and raises total_pages_viewed by exactly 1, also for a
\* repeated page, so that n requests leave total_pages_viewed at n and n log rows
C22_OneRowPerUpdate ==
  [][\A e \in EnrollIds :
       (Accepted("update_progress", e) /\
        UpdateProgress(enrollments[e].user, e, last'.arg, 0, "page_view")) =>
         /\ enrollments'[e].total_pages_viewed = enrollments[e].total_pages_viewed + 1
         /\ logs'[e] = Append(logs[e], LogRow(last'.arg, "page_view", 0, EmptyMeta))]_vars

\* C23: an accepted updateProgress(p) leaves current_lesson at the lesson of
\* the enrollment's course whose page_number is p if there is one, otherwise
\* at the lesson of that course with the greatest page_number <= p, otherwise
\* null; never at a lesson of another course or with page_number > p
C23_CurrentLessonResolved ==
  [][\A e \in EnrollIds :
       (Accepted("update_progress", e) /\
        UpdateProgress(enrollments[e].user, e, last'.arg, 0, "page_view")) =>
         LET p == last'.arg
             own == LessonsOf(lessons, enrollments[e].course)
             cl == enrollments'[e].current_lesson
         IN /\ (\E l \in own : lessons[l].page_number = p) =>
                 (cl \in own /\ lessons[cl].page_number = p)
            /\ ((\A l \in own : lessons[l].page_number # p) /\
                (\E l \in own : lessons[l].page_number <= p)) =>
                 /\ cl \in own
                 /\ lessons[cl].page_number <= p
                 /\ \A k \in own :
                      lessons[k].page_number <= p =>
                        lessons[k].page_number <= lessons[cl].page_number
            /\ (\A l \in own : lessons[l].page_number > p) => cl = Null
            /\ cl # Null => (cl \in own /\ lessons[cl].page_number <= p)]_vars

\* C23 witness: a view of page 3 resolved to the lesson on page 2, the course
\* having a lesson on page 1 as well
C23_Witness ==
  /\ last.op = "update_progress" /\ last.status = HTTP_200_OK /\ last.arg = 3
  /\ Exists(enrollments[last.id])
  /\ enrollments[last.id].current_lesson # Null
  /\ Exists(lessons[enrollments[last.id].current_lesson])
  /\ lessons[enrollments[last.id].current_lesson].page_number = 2
  /\ Cardinality(LessonsOf(lessons, last.course)) = 2

\* C24: next of a lesson L is the lesson of the same course with the smallest
\* order above L.order and previous the one with the greatest order below it,
\* none at the boundary; following next from the lowest-order lesson visits
\* every lesson of the course, and previous(next(L)) = L whenever next(L) exists
C24_LessonSequence ==
  \A l \in LessonIds :
    Exists(lessons[l]) =>
      LET own == LessonsOf(lessons, lessons[l].course)
      IN /\ \A n \in NextLessonOutcomes(lessons, l) :
              IF \A k \in own : lessons[k].order <= lessons[l].order
              THEN n = Null
              ELSE /\ n \in own
                   /\ lessons[n].order > lessons[l].order
                   /\ \A k \in own : lessons[k].order > lessons[l].order =>
                                       lessons[n].order <= lessons[k].order
                   /\ PreviousLessonOutcomes(lessons, n) = {l}
         /\ \A n \in PreviousLessonOutcomes(lessons, l) :
              IF \A k \in own : lessons[k].order >= lessons[l].order
              THEN n = Null
              ELSE /\ n \in own
                   /\ lessons[n].order < lessons[l].order
                   /\ \A k \in own : lessons[k].order < lessons[l].order =>
                                       lessons[n].order >= lessons[k].order
         /\ (\A k \in own : lessons[l].order <= lessons[k].order) =>
              own \subseteq FollowNext(lessons, {l}, MaxLessons)

\* C29: on a course whose total_pages stays as it is (0 included), through
\* enroll, updateProgress, bookmark, addNote and resetProgress: a completed
\* enrollment has pages_completed >= total_pages, and progress_percentage 100
\* when total_pages > 0; after an accepted updateProgress, pages_completed >=
\* total_pages implies that the enrollment is completed
C29_CompletedIffAllPages ==
  /\ [](\A e \in EnrollIds :
          (Exists(enrollments[e]) /\ IsCompleted(enrollments[e])) =>
            /\ enrollments[e].pages_completed >= TotalPagesOf(e)
            /\ TotalPagesOf(e) > 0 =>
                 ProgressPercentage(enrollments[e], TotalPagesOf(e)) = <<100, 1>>)
  /\ [][\A e \in EnrollIds :
          (Accepted("update_progress", e) /\
           UpdateProgress(enrollments[e].user, e, last'.arg, 0, "page_view") /\
           enrollments'[e].pages_completed >= course'[enrollments'[e].course].total_pages) =>
            IsCompleted(enrollments'[e])]_vars

\* C29 witness: after a reset of a completed enrollment, a view of the first
\* page of a two-page course left the enrollment open at 50 percent
C29_Witness ==
  /\ last.op = "update_progress" /\ last.status = HTTP_200_OK /\ last.arg = 1
  /\ Exists(enrollments[last.id])
  /\ TotalPagesOf(last.id) = 2
  /\ ~IsCompleted(enrollments[last.id])
  /\ ProgressPercentage(enrollments[last.id], 2) = <<50, 1>>
  /\ Len(logs[last.id]) = 3
  /\ logs[last.id][1].action = "progress_reset"

\* C30: an accepted update-progress request that carries time_spent = t raises
\* the time recorded for the enrollment (CourseEnrollment.time_spent) and the
\* user's total_time_spent_seconds by t, and a reset starts the sum again at
\* 0, so that the time recorded is the sum of the times the requests carried
C30_TimeRecordedIsReported ==
  [][\A e \in EnrollIds, t \in TimeInputs, a \in ActionInputs :
       /\ (Accepted("update_progress", e) /\
           UpdateProgress(enrollments[e].user, e, last'.arg, t, a)) =>
            /\ TimeSpent(e)' = TimeSpent(e) + t
            /\ TotalTimeSpentSeconds(enrollments[e].user)' =
                 TotalTimeSpentSeconds(enrollments[e].user) + t
       /\ (Accepted("reset_progress", e) /\ ResetProgress(enrollments[e].user, e)) =>
            TimeSpent(e)' = 0]_vars

\* C25: the writes of one request are all-or-nothing: when an
\* update-progress, reset-progress or unenroll request ends in a failure
\* between two of its statements, the enrollment, its log rows and the course
\* are as they were when the request started
C25_AllOrNothing ==
  [][\A w \in Workers :
       (requests[w] # Idle /\ RequestFails(w)) =>
         LET r == requests[w]
         IN /\ enrollments'[r.id] = r.start.row
            /\ logs'[r.id] = r.start.log
            /\ course'[r.start.row.course] = r.start.crs]_vars

\* the update-progress requests on enrollment e that were answered: the log
\* rows the view created for them
AnsweredUpdates(e) ==
  Cardinality({i \in 1..Len(logs[e]) : logs[e][i].action = "quiz_complete"})

\* C26: under every interleaving of two update-progress requests for the
\* same enrollment, the stored pages_completed never decreases, a stored
\* completed_at is never overwritten with null, and once both are answered
\* total_pages_viewed is 2 higher than before (one per answered request)
C26_RaceKeepsProgress ==
  /\ [][\A e \in EnrollIds :
          (Exists(enrollments[e]) /\ Exists(enrollments'[e])) =>
            /\ enrollments'[e].pages_completed >= enrollments[e].pages_completed
            /\ enrollments[e].completed_at # Null =>
                 enrollments'[e].completed_at # Null]_vars
  /\ [](AllIdle =>
          \A e \in EnrollIds :
            Exists(enrollments[e]) =>
              enrollments[e].total_pages_viewed = AnsweredUpdates(e))

\* the columns of a course row that are not denormalized counters
OtherColumns(row) ==
  [row EXCEPT !.total_enrollments = 0, !.total_lessons = 0, !.average_rating = <<0, 1>>]

\* the counters of a course row that differ from those of another
CountersChanged(old, new) ==
  {f \in {"total_enrollments", "total_lessons", "average_rating"} :
     \/ f = "total_enrollments" /\ old.total_enrollments # new.total_enrollments
     \/ f = "total_lessons" /\ old.total_lessons # new.total_lessons
     \/ f = "average_rating" /\ old.average_rating # new.average_rating}

\* C27: a write to the counters of a course changes one counter and no other
\* column of the row, so that, whenever an unenroll request or a call of
\* Course.enroll_user runs next to rating and lesson creations on the same
\* course, once the requests have finished average_rating is the mean of the
\* ratings, total_lessons the number of lessons and total_enrollments the
\* number of enrollments
C27_CounterWritesTargeted ==
  /\ [][\A c \in Courses :
          (Exists(course[c]) /\ Exists(course'[c]) /\ course'[c] # course[c]) =>
            /\ OtherColumns(course'[c]) = OtherColumns(course[c])
            /\ Cardinality(CountersChanged(course[c], course'[c])) = 1]_vars
  /\ [](AllIdle =>
          \A c \in Courses :
            Exists(course[c]) =>
              /\ course[c].average_rating = AvgRating(ratings, c)
              /\ course[c].total_lessons = Cardinality(LessonsOf(lessons, c))
              /\ course[c].total_enrollments = Cardinality(EnrollmentsOf(c)))

\* C28: under every interleaving of two enroll requests of one user for one
\* course, at most one enrollment row exists for the pair in every state,
\* every request is answered 201 or 400, and once both are answered
\* total_enrollments is the number of enrollment rows of the course
C28_EnrollRaceSafe ==
  /\ \A u \in Users, c \in Courses : Cardinality(PairRows(enrollments, u, c)) <= 1
  /\ last.op = "enroll" => last.status \in {HTTP_201_CREATED, HTTP_400_BAD_REQUEST}
  /\ AllIdle =>
       \A c \in Courses :
         Exists(course[c]) => course[c].total_enrollments = Cardinality(EnrollmentsOf(c))

====
